---- MODULE Spec2Model ----
(***************************************************************************)
(* Model of the TPI analyzer driver: the packet codec of TPIController     *)
(* (tpi_controller.py, tpi_controller2.py), the sweep lifecycle of         *)
(* FrequencyScanner (Analyzer_Granular.py) and the single-function scan    *)
(* script scan_frequency_range ("Analyzer Working 20250712.py").           *)
(***************************************************************************)
EXTENDS Integers, Sequences, FiniteSets, TLC

(***************************************************************************)
(* Bounds of the model.                                                    *)
(***************************************************************************)
\* longest payload (bytes after the two opcode bytes) of an enumerated body
MaxPayload == 2
\* longest body of the padded (two-byte length field) bodies is 256 + MaxPad
MaxPad == 1

(***************************************************************************)
(* Bytes and byte strings.                                                 *)
(***************************************************************************)
Byte == 0..255

\* byte values the enumerated bodies are built from
BodyBytes == {0, 7, 8, 255}

\* amounts (mod 256) by which line noise changes a wire byte: every single
\* bit flipped up or down, and a few multi-bit changes
CorruptDeltas == {1, 2, 4, 8, 16, 32, 64, 128, 192, 224, 240, 248, 252, 254,
                  255, 3, 85, 127, 129, 170}

\* sum(b), summed by halves
RECURSIVE Sum(_)
Sum(s) ==
    IF Len(s) = 0 THEN 0
    ELSE IF Len(s) = 1 THEN s[1]
    ELSE LET h == Len(s) \div 2
         IN  Sum(SubSeq(s, 1, h)) + Sum(SubSeq(s, h + 1, Len(s)))

\* b[:n]
Take(s, n) == SubSeq(s, 1, IF n < Len(s) THEN n ELSE Len(s))

\* b[n:]
Drop(s, n) == SubSeq(s, n + 1, Len(s))

\* ser.read(n) on the bytes the device will still deliver before the timeout
SerRead(stream, n) == Take(stream, n)

Repeat(b, n) == [k \in 1..n |-> b]

SeqsUpTo(S, n) == UNION {[1..k -> S] : k \in 0..n}

(***************************************************************************)
(* Packet codec.                                                           *)
(***************************************************************************)
\* a builder that writes the length field low byte first
BuildPacketLenLE(body_bytes) ==
    LET length == Len(body_bytes)
        header == <<170, 85, length % 256, (length \div 256) % 256>>
        chk    == (255 - ((header[3] + header[4] + Sum(body_bytes)) % 256)) % 256
    IN  header \o body_bytes \o <<chk>>

\* a builder whose checksum covers the body only
BuildPacketBodySum(body_bytes) ==
    LET length == Len(body_bytes)
        header == <<170, 85, (length \div 256) % 256, length % 256>>
        chk    == (255 - (Sum(body_bytes) % 256)) % 256
    IN  header \o body_bytes \o <<chk>>

\* tpi_controller2.py _build_packet
BuildPacket(body_bytes) ==
    LET length == Len(body_bytes)
        header == <<170, 85, (length \div 256) % 256, length % 256>>
        chk    == (255 - ((header[3] + header[4] + Sum(body_bytes)) % 256)) % 256
    IN  header \o body_bytes \o <<chk>>

\* tpi_controller.py _build_packet
BuildPacket1(body_bytes) ==
    LET body_len      == Len(body_bytes)
        header        == <<170, 85, (body_len \div 256) % 256, body_len % 256>>
        checksum_base == header[3] + header[4] + Sum(body_bytes)
        checksum      == (255 - (checksum_base % 256)) % 256
    IN  header \o body_bytes \o <<checksum>>

Raised(kind, msg) == [status |-> kind, msg |-> msg, body |-> <<>>]

Returned(body) == [status |-> "ok", msg |-> "", body |-> body]

\* a reader that does not compare the checksum byte
ReadResponseUnchecked(stream) ==
    LET header == SerRead(stream, 4)
    IN  IF Len(header) < 4
        THEN Raised("RuntimeError", "Timeout waiting for response header.")
        ELSE IF header[1] # 170 \/ header[2] # 85
        THEN Raised("RuntimeError", "Invalid response header")
        ELSE
          LET length   == header[3] * 256 + header[4]
              body     == SerRead(Drop(stream, 4), length)
              checksum == SerRead(Drop(stream, 4 + Len(body)), 1)
          IN  IF Len(body) < length
              THEN Raised("RuntimeError", "Timeout reading response body.")
              ELSE IF Len(checksum) < 1
              THEN Raised("RuntimeError", "Timeout reading checksum.")
              ELSE Returned(body)

\* tpi_controller2.py _read_response, reading from the bytes in `stream`
ReadResponse(stream) ==
    LET header == SerRead(stream, 4)
    IN  IF Len(header) < 4
        THEN Raised("RuntimeError", "Timeout waiting for response header.")
        ELSE IF header[1] # 170 \/ header[2] # 85
        THEN Raised("RuntimeError", "Invalid response header")
        ELSE
          LET length   == header[3] * 256 + header[4]
              body     == SerRead(Drop(stream, 4), length)
              checksum == SerRead(Drop(stream, 4 + Len(body)), 1)
              chk      == (255 - ((header[3] + header[4] + Sum(body)) % 256)) % 256
          IN  IF Len(body) < length
              THEN Raised("RuntimeError", "Timeout reading response body.")
              ELSE IF Len(checksum) < 1
              THEN Raised("RuntimeError", "Timeout reading checksum.")
              ELSE IF checksum[1] # chk
              THEN Raised("RuntimeError", "Checksum mismatch.")
              ELSE Returned(body)

\* tpi_controller.py _read_response, lines 32-37: the marker scan; the result
\* is the stream after the marker, or "hang" when reads time out for ever
RECURSIVE ScanMarker(_)
ScanMarker(stream) ==
    IF stream = <<>>
    THEN [found |-> FALSE, rest |-> <<>>]
    ELSE IF Head(stream) = 170
    THEN LET b2 == SerRead(Tail(stream), 1)
         IN  IF b2 = <<85>>
             THEN [found |-> TRUE, rest |-> Drop(stream, 2)]
             ELSE ScanMarker(Drop(stream, 1 + Len(b2)))
    ELSE ScanMarker(Tail(stream))

\* tpi_controller.py _read_response
ReadResponse1(stream) ==
    LET scan == ScanMarker(stream)
    IN  IF ~scan.found
        THEN Raised("hang", "no marker: read(1) is retried for ever")
        ELSE
          LET length_bytes == SerRead(scan.rest, 2)
          IN  IF Len(length_bytes) < 2
              THEN Raised("IndexError", "length_bytes")
              ELSE
                LET length   == length_bytes[1] * 256 + length_bytes[2]
                    body     == SerRead(Drop(scan.rest, 2), length)
                    checksum == SerRead(Drop(scan.rest, 2 + Len(body)), 1)
                    checksum_base == length_bytes[1] + length_bytes[2] + Sum(body)
                    expected_checksum == (255 - (checksum_base % 256)) % 256
                IN  IF Len(checksum) < 1
                    THEN Raised("IndexError", "checksum")
                    ELSE IF checksum[1] # expected_checksum
                    THEN Raised("ValueError", "Checksum mismatch!")
                    ELSE Returned(body)

(***************************************************************************)
(* State.                                                                  *)
(***************************************************************************)
VARIABLES
    \* codec exercise: the body handed to _build_packet, the bytes on the
    \* wire, the outcome of each response reader, and the position
    cbody, wire, resp, resp1, cpc,
    noise,         \* bytes the link delivers before the response frame
    \* FrequencyScanner / scan script
    pc,            \* position of the single thread of control
    op,            \* the call in progress, or the last one that finished
    tpi,           \* self.tpi: TRUE when the scanner holds a controller
    open_links,    \* serial links opened by the scanner and not closed
    all_raw_data,  \* self.all_raw_data
    i,             \* index of the capture loop
    reads,         \* calls of capture_analyzer_raw made by the current run()
    args,          \* arguments of the call in progress
    results,       \* list returned by the last run()
    sent,          \* link events of the call: commands written, "close"
    rf_on, det_on, \* device: RF output / detector state
    rf_off_ok,     \* the device accepted an RF-off command during the call
    pending,       \* exception caught by the except clause of setup()/run()
    td_err,        \* exception raised inside the try block of shutdown()
    err,           \* exception that reached the caller of the last call
    carried,       \* bytes appended to the buffer by the current run() only
    frames,        \* the float bytes of the frames this run() has received
    raw_data,      \* the chunk returned by the latest capture_analyzer_raw
    stale,         \* the buffer held bytes of an earlier run() at this call
    \* TPIController used directly
    kpc,           \* position of the caller of the controller
    kver,          \* 1: tpi_controller.py, 2: tpi_controller2.py
    kcall,         \* the controller method in progress or last finished
    klog,          \* exchanges of that call: body written, reader's result
    kret,          \* how that call ended
    kopen,         \* __init__: retries, attempt, open attempts and sleeps
    dev,           \* device: the sweep parameters it stores
    \* analysis functions of Analyzer_Granular.py
    fin,           \* the function called and its arguments
    facc,          \* get_highest_baseline: the captures taken so far
    fout           \* what the call returned or raised

codec_vars == <<cbody, wire, resp, resp1, cpc, noise>>

scan_vars == <<pc, op, tpi, open_links, all_raw_data, i, reads, args, results,
               sent, rf_on, det_on, rf_off_ok, pending, td_err, err, carried, frames,
               raw_data, stale>>

ctrl_vars == <<kpc, kver, kcall, klog, kret, kopen, dev>>

func_vars == <<fin, facc, fout>>

vars == <<cbody, wire, resp, resp1, cpc, noise,
          pc, op, tpi, open_links, all_raw_data, i, reads, args, results,
          sent, rf_on, det_on, rf_off_ok, pending, td_err, err, carried, frames,
          raw_data, stale,
          kpc, kver, kcall, klog, kret, kopen, dev,
          fin, facc, fout>>

(***************************************************************************)
(* Codec exercise: build a frame, optionally damage one byte, read it.     *)
(***************************************************************************)
\* a body of 256 + n bytes: its length needs both bytes of the length field
PaddedBody(n) == <<8, 60>> \o Repeat(255, 254 + n)

Opcodes == {<<7, 2>>, <<8, 1>>, <<7, 63>>, <<255, 255>>}

Bodies == {o \o p : o \in Opcodes, p \in SeqsUpTo(BodyBytes, MaxPayload)}
          \cup {PaddedBody(n) : n \in 0..MaxPad}

NoResp == Raised("none", "")

CodecIdle ==
    /\ cbody = <<>>
    /\ wire = <<>>
    /\ resp = NoResp
    /\ resp1 = NoResp
    /\ cpc = "off"
    /\ noise = <<>>

CodecInit ==
    /\ cbody \in Bodies
    /\ wire = <<>>
    /\ resp = NoResp
    /\ resp1 = NoResp
    /\ cpc = "body"
    /\ noise = <<>>

\* _send_command: pkt = self._build_packet(body_bytes), in either controller
C_Build ==
    /\ cpc = "body"
    /\ wire' \in {BuildPacket(cbody), BuildPacket1(cbody)}
    /\ cpc' = "built"
    /\ UNCHANGED <<cbody, resp, resp1, noise>>

\* line noise: one byte after the header (body or checksum) changes value
C_Corrupt ==
    /\ cpc = "built"
    /\ \E k \in 5..Len(wire), d \in CorruptDeltas :
          wire' = [wire EXCEPT ![k] = (wire[k] + d) % 256]
    /\ cpc' = "damaged"
    /\ UNCHANGED <<cbody, resp, resp1, noise>>

\* bytes of line noise in front of a frame; none of them holds AA 55
Noises == {<<0>>, <<255, 0>>, <<85, 170, 0>>, <<170>>}

\* line noise: stray bytes arrive before the response frame
C_Noise ==
    /\ cpc = "built"
    /\ noise' \in Noises
    /\ cpc' = "noisy"
    /\ UNCHANGED <<cbody, wire, resp, resp1>>

\* the device stops sending: only the first k bytes of the frame arrive
C_Cut ==
    /\ cpc = "built"
    /\ \E k \in 0..(Len(wire) - 1) : wire' = Take(wire, k)
    /\ cpc' = "cut"
    /\ UNCHANGED <<cbody, resp, resp1, noise>>

\* _send_command line 54: return self._read_response()
C_Read ==
    /\ cpc \in {"built", "damaged", "noisy", "cut"}
    /\ resp' = ReadResponse(noise \o wire)
    /\ resp1' = ReadResponse1(noise \o wire)
    /\ cpc' = CASE cpc = "built" -> "read"
                [] cpc = "damaged" -> "read_damaged"
                [] cpc = "noisy" -> "read_noisy"
                [] cpc = "cut" -> "read_cut"
    /\ UNCHANGED <<cbody, wire, noise>>

(***************************************************************************)
(* Sweep controller: constants, inputs and pure helpers.                   *)
(***************************************************************************)
\* FrequencyScanner.NUM_CAPTURES
NUM_CAPTURES == 60

\* links the operating system lets the scanner hold open at once
MaxLinks == 2
\* longest accumulation buffer the device's chunks are allowed to build
MaxBuf == 8

\* the stop notification AA 55 00 02 07 3F B7 ("aa550002073fb7")
Sentinel == <<170, 85, 0, 2, 7, 63, 183>>

\* how one command/response exchange can end: the response echoes the
\* opcode, the response carries another opcode, _read_response raises
Outcomes == {"ok", "mismatch", "timeout"}

Err(kind, at) == [kind |-> kind, at |-> at]

NoErr == Err("none", "none")

NoArgs == [call |-> "none"]

SetupArgs ==
    {[call |-> "setup", start_khz |-> 1000, stop_khz |-> sp, step_khz |-> st,
      dwell_ms |-> d] : sp \in {1010, 1011}, st \in {0, 10}, d \in {1, 2, 500, 501}}

RunArgs ==
    {[call |-> "run", start_khz |-> 1000, step_khz |-> st] : st \in {0, 10}}

\* float payloads of data packets: 0.0 and -1.5 (00 00 C0 BF)
F0 == <<0, 0, 0, 0>>

F15 == <<0, 0, 192, 191>>

Payloads == {F0, F15}

\* a data packet 07 3E: n_points, first_step (u32), n_points floats
DataFrame(p) == BuildPacket(<<7, 62, Len(p) \div 4, 0, 0, 0, 0>> \o p)

\* what one capture_analyzer_raw(duration) call can return
Chunks ==
    {<<>>, Sentinel, Take(Sentinel, 3), Drop(Sentinel, 3), Sentinel \o <<0>>}
    \cup {DataFrame(p) : p \in Payloads}
    \cup {DataFrame(p) \o Sentinel : p \in Payloads}
    \cup {DataFrame(p) \o Take(Sentinel, 3) : p \in Payloads}

\* no chunk received yet; every chunk so far was one complete frame
NoFrames == [valid |-> TRUE, data |-> <<>>]

\* the record of the frames received, after one more chunk: the floats of
\* a data packet are added; a stop notification, alone or behind a data
\* packet, adds nothing; any other chunk is not one complete frame
Received(fr, chunk) ==
    IF ~fr.valid
    THEN fr
    ELSE IF \E p \in Payloads : chunk \in {DataFrame(p), DataFrame(p) \o Sentinel}
    THEN [fr EXCEPT !.data =
             @ \o (CHOOSE p \in Payloads :
                      chunk \in {DataFrame(p), DataFrame(p) \o Sentinel})]
    ELSE IF chunk = Sentinel
    THEN fr
    ELSE [valid |-> FALSE, data |-> <<>>]

\* calculate_num_points
CalculateNumPoints(start_khz, stop_khz, step_khz) ==
    IF step_khz = 0
    THEN [ok |-> FALSE, kind |-> "ZeroDivisionError", value |-> 0]
    ELSE IF (stop_khz - start_khz) % step_khz # 0
    THEN [ok |-> FALSE, kind |-> "ValueError", value |-> 0]
    ELSE [ok |-> TRUE, kind |-> "none",
          value |-> (stop_khz - start_khz) \div step_khz + 1]

\* a dwell check that rejects the limits 2 and 500 as well
DwellOutOfRangeExclusive(dwell_ms) == dwell_ms <= 2 \/ dwell_ms >= 500

\* set_analyzer_parameters_v2 line 97
DwellOutOfRange(dwell_ms) == dwell_ms < 2 \/ dwell_ms > 500

\* the four bytes read most significant byte first
UnpackFloatBE(b) ==
    [sign     |-> b[1] \div 128,
     exponent |-> (b[1] % 128) * 2 + b[2] \div 128,
     mantissa |-> (b[2] % 128) * 65536 + b[3] * 256 + b[4]]

\* struct.unpack('<f', b): the IEEE 754 binary32 fields of four bytes, least
\* significant byte first
UnpackFloatLE(b) ==
    [sign     |-> b[4] \div 128,
     exponent |-> (b[4] % 128) * 2 + b[3] \div 128,
     mantissa |-> (b[3] % 128) * 65536 + b[2] * 256 + b[1]]

\* run() lines 413-417
RECURSIVE FloatValues(_, _)
FloatValues(buf, k) ==
    IF k >= Len(buf)
    THEN <<>>
    ELSE (IF k + 4 <= Len(buf)
          THEN <<UnpackFloatLE(SubSeq(buf, k + 1, k + 4))>>
          ELSE <<>>) \o FloatValues(buf, k + 4)

\* run() lines 420-422
MakeResults(float_values, start_khz, step_khz) ==
    [k \in 1..Len(float_values) |->
        [freq |-> start_khz + (k - 1) * step_khz, value |-> float_values[k]]]

\* a strip that keeps the checksum byte
ProcessedWithChecksum(chunk) ==
    IF Len(chunk) > 12 THEN SubSeq(chunk, 12, Len(chunk)) ELSE <<>>

\* run() lines 403-405: what a chunk adds to the accumulation buffer
Processed(chunk) ==
    IF Len(chunk) > 12 THEN SubSeq(chunk, 12, Len(chunk) - 1) ELSE <<>>

\* a test that finds the sentinel anywhere in the chunk
HoldsSentinel(chunk) ==
    \E k \in 0..(Len(chunk) - 7) : SubSeq(chunk, k + 1, k + 7) = Sentinel

\* run() line 407
EndsWithSentinel(chunk) ==
    Len(chunk) >= 7 /\ SubSeq(chunk, Len(chunk) - 6, Len(chunk)) = Sentinel

\* run() lines 408-409
StripSentinel(buf) ==
    IF Len(buf) >= 7 THEN SubSeq(buf, 1, Len(buf) - 7) ELSE buf

\* run() lines 403-410: the buffer after one chunk
Accumulate(buf, chunk) ==
    IF EndsWithSentinel(chunk)
    THEN StripSentinel(buf \o Processed(chunk))
    ELSE buf \o Processed(chunk)

\* a loop that runs one iteration too many
LoopContinuesInclusive(k) == k <= NUM_CAPTURES

\* run() line 400: for i in range(self.NUM_CAPTURES)
LoopContinues(k) == k < NUM_CAPTURES

\* a run() without the check for a controller
RunAcceptedAlways(t) == TRUE

\* run() line 385: if not self.tpi: raise
RunAccepted(t) == t

\* a run() that keeps appending to the buffer of the previous call
KeepBuffer(old) == old

\* run() line 389: self.all_raw_data = bytearray()
FreshBuffer(old) == <<>>

\* no parameters stored yet: the device mirrors 21 zero bytes
NoParams == [none |-> TRUE]

NoValue == [none |-> TRUE]

NoCall == [name |-> "none"]

NotOpened == [retries |-> 0, attempt |-> 0, events |-> <<>>]

DevInit == [payload |-> Repeat(0, 21), p |-> NoParams]

\* no result yet
NoOut == [status |-> "none"]

\* no analysis function is in use
FuncIdle ==
    /\ fin = [fn |-> "none"]
    /\ facc = <<>>
    /\ fout = NoOut

\* no controller is in use
CtrlIdle ==
    /\ kpc = "off"
    /\ kver = 2
    /\ kcall = NoCall
    /\ klog = <<>>
    /\ kret = [status |-> "none", msg |-> "", value |-> NoValue]
    /\ kopen = NotOpened
    /\ dev = DevInit

(***************************************************************************)
(* Sweep controller: steps shared by FrequencyScanner and the scan script. *)
(* `okpc` is where control goes when the step succeeds, `failpc` where the *)
(* enclosing try block sends an exception.                                 *)
(***************************************************************************)
ScanInit ==
    /\ pc = "ready"
    /\ op = "none"
    /\ tpi = FALSE
    /\ open_links = 0
    /\ all_raw_data = <<>>
    /\ i = 0
    /\ reads = 0
    /\ args = NoArgs
    /\ results = <<>>
    /\ sent = <<>>
    /\ rf_on \in BOOLEAN
    /\ det_on \in BOOLEAN
    /\ rf_off_ok = FALSE
    /\ pending = NoErr
    /\ td_err = NoErr
    /\ err = NoErr
    /\ carried = <<>>
    /\ frames = NoFrames
    /\ raw_data = <<>>
    /\ stale = FALSE

\* the caller invokes `name` with arguments `a`
Begin(name, a, next) ==
    /\ pc = "ready"
    /\ pc' = next
    /\ op' = name
    /\ args' = a
    /\ sent' = <<>>
    /\ results' = <<>>
    /\ rf_off_ok' = FALSE
    /\ pending' = NoErr
    /\ td_err' = NoErr
    /\ err' = NoErr
    /\ i' = 0
    /\ reads' = 0
    /\ carried' = <<>>
    /\ frames' = NoFrames
    /\ raw_data' = <<>>
    /\ stale' = (name = "run" /\ all_raw_data # <<>>)

\* the call in progress returns or raises `e` to the caller
Return(e) ==
    /\ pc' = "ready"
    /\ err' = e
    /\ UNCHANGED args

\* a step of a try block ends normally
Continue(okpc) ==
    IF okpc = "ready"
    THEN Return(NoErr) /\ UNCHANGED pending
    ELSE pc' = okpc /\ UNCHANGED <<args, err, pending>>

\* a step of a try block raises `e`
Fail(e, failpc) ==
    /\ pc' = failpc
    /\ pending' = e
    /\ UNCHANGED <<args, err>>

\* _send_command of `cmd` at position `from`, inside a try block
Exchange(from, cmd, okpc, failpc) ==
    /\ pc = from
    /\ sent' = Append(sent, cmd)
    /\ \E o \in Outcomes :
          \/ o = "ok" /\ Continue(okpc)
          \/ o # "ok" /\ Fail(Err("RuntimeError", from), failpc)

\* TPIController.__init__: the port opens, or every attempt fails.  A
\* controller the scanner still held is dropped by the assignment: its port
\* stays open, or the finaliser of the dropped serial object closes it.
S_Open(okpc) ==
    /\ pc = "s_open"
    /\ \/ /\ Return(Err("RuntimeError", "open"))
          /\ UNCHANGED <<tpi, open_links>>
       \/ /\ open_links < MaxLinks
          /\ tpi' = TRUE
          /\ pc' = okpc
          /\ \/ open_links' = open_links + 1
             \/ tpi /\ open_links' = open_links
          /\ UNCHANGED <<args, err>>
    /\ UNCHANGED <<op, all_raw_data, i, reads, results, sent, rf_on, det_on,
                   rf_off_ok, pending, td_err, carried, frames,
                   raw_data, stale>>

\* enable_user_control lines 75-80: the probe; any failure is swallowed
E_Probe1 ==
    /\ pc = "s_probe"
    /\ sent' = Append(sent, "probe")
    /\ \E o \in Outcomes :
          \/ o = "ok" /\ pc' = "s_power"
          \/ o # "ok" /\ pc' = "s_enable"
    /\ UNCHANGED <<op, tpi, open_links, all_raw_data, i, reads, args, results,
                   rf_on, det_on, rf_off_ok, pending, td_err, err, carried, frames,
                   raw_data, stale>>

\* enable_user_control lines 81-83
E_Enable(failpc) ==
    /\ Exchange("s_enable", "enable", "s_probe2", failpc)
    /\ UNCHANGED <<op, tpi, open_links, all_raw_data, i, reads, results,
                   rf_on, det_on, rf_off_ok, td_err, carried, frames,
                   raw_data, stale>>

\* enable_user_control lines 84-86
E_Probe2(failpc) ==
    /\ Exchange("s_probe2", "probe", "s_power", failpc)
    /\ UNCHANGED <<op, tpi, open_links, all_raw_data, i, reads, results,
                   rf_on, det_on, rf_off_ok, td_err, carried, frames,
                   raw_data, stale>>

\* set_rf_power(RF_POWER_DBM): 0 dBm is in range, the command is sent
S_Power(failpc) ==
    /\ Exchange("s_power", "set_rf_power", "s_params", failpc)
    /\ UNCHANGED <<op, tpi, open_links, all_raw_data, i, reads, results,
                   rf_on, det_on, rf_off_ok, td_err, carried, frames,
                   raw_data, stale>>

\* calculate_num_points, then set_analyzer_parameters_v2
S_Params(failpc) ==
    /\ pc = "s_params"
    /\ LET n == CalculateNumPoints(args.start_khz, args.stop_khz, args.step_khz)
       IN  IF ~n.ok
           THEN Fail(Err(n.kind, "s_params"), failpc) /\ UNCHANGED sent
           ELSE IF DwellOutOfRange(args.dwell_ms)
           THEN Fail(Err("ValueError", "s_params"), failpc) /\ UNCHANGED sent
           ELSE Exchange("s_params", "set_params", "s_det", failpc)
    /\ UNCHANGED <<op, tpi, open_links, all_raw_data, i, reads, results,
                   rf_on, det_on, rf_off_ok, td_err, carried, frames,
                   raw_data, stale>>

\* set_detector_state(on): an exchange that switches the detector
SetDetectorState(from, on, okpc, failpc) ==
    /\ pc = from
    /\ sent' = Append(sent, IF on THEN "det_on" ELSE "det_off")
    /\ \E o \in Outcomes :
          \/ o = "ok" /\ det_on' = on /\ Continue(okpc)
          \/ o # "ok" /\ det_on' = det_on /\ Fail(Err("RuntimeError", from), failpc)

\* set_rf_output_state(on): an exchange that switches the RF output
SetRfOutputState(from, on, okpc, failpc) ==
    /\ pc = from
    /\ sent' = Append(sent, IF on THEN "rf_on" ELSE "rf_off")
    /\ \E o \in Outcomes :
          \/ o = "ok" /\ rf_on' = on /\ Continue(okpc)
          \/ o # "ok" /\ rf_on' = rf_on /\ Fail(Err("RuntimeError", from), failpc)

\* a setup() that forgets to switch the detector on
S_DetSkipped(failpc) ==
    /\ pc = "s_det"
    /\ pc' = "s_rf"
    /\ UNCHANGED <<op, tpi, open_links, all_raw_data, i, reads, args, results,
                   sent, rf_on, det_on, rf_off_ok, pending, td_err, err, carried, frames,
                   raw_data, stale>>

\* setup() line 374
S_Det(failpc) ==
    /\ SetDetectorState("s_det", TRUE, "s_rf", failpc)
    /\ UNCHANGED <<op, tpi, open_links, all_raw_data, i, reads, results,
                   rf_on, rf_off_ok, td_err, carried, frames,
                   raw_data, stale>>

\* setup() line 375
S_Rf(okpc, failpc) ==
    /\ SetRfOutputState("s_rf", TRUE, okpc, failpc)
    /\ UNCHANGED <<op, tpi, open_links, all_raw_data, i, reads, results,
                   det_on, rf_off_ok, td_err, carried, frames,
                   raw_data, stale>>

\* run() line 394: start_analyzer_v2()
R_Start(failpc) ==
    /\ Exchange("r_start", "start", "r_capture", failpc)
    /\ UNCHANGED <<op, tpi, open_links, all_raw_data, i, reads, results,
                   rf_on, det_on, rf_off_ok, td_err, carried, frames,
                   raw_data, stale>>

\* run() lines 400-410: one iteration of the capture loop
R_Capture(failpc) ==
    /\ pc = "r_capture"
    /\ LoopContinues(i)
    /\ reads' = reads + 1
    /\ \/ \E chunk \in Chunks :
             /\ Len(Accumulate(all_raw_data, chunk)) <= MaxBuf
             /\ raw_data' = chunk
             /\ all_raw_data' = Accumulate(all_raw_data, chunk)
             /\ carried' = Accumulate(carried, chunk)
             /\ frames' = Received(frames, chunk)
             /\ IF EndsWithSentinel(chunk)
                THEN pc' = "r_decode" /\ i' = i
                ELSE pc' = "r_capture" /\ i' = i + 1
             /\ UNCHANGED <<args, err, pending>>
       \/ /\ Fail(Err("SerialException", "r_capture"), failpc)
          /\ UNCHANGED <<all_raw_data, carried, frames, i, raw_data>>
    /\ UNCHANGED <<op, tpi, open_links, results, sent, rf_on, det_on,
                   rf_off_ok, td_err, stale>>

\* run() line 400: the range is exhausted
R_LoopEnd ==
    /\ pc = "r_capture"
    /\ ~LoopContinues(i)
    /\ pc' = "r_decode"
    /\ UNCHANGED <<op, tpi, open_links, all_raw_data, i, reads, args, results,
                   sent, rf_on, det_on, rf_off_ok, pending, td_err, err, carried, frames,
                   raw_data, stale>>

\* run() lines 412-426: decode the buffer and pair values with frequencies
R_Decode(okpc) ==
    /\ pc = "r_decode"
    /\ results' = MakeResults(FloatValues(all_raw_data, 0),
                              args.start_khz, args.step_khz)
    /\ Continue(okpc)
    /\ UNCHANGED <<op, tpi, open_links, all_raw_data, i, reads, sent, rf_on,
                   det_on, rf_off_ok, td_err, carried, frames,
                   raw_data, stale>>

(***************************************************************************)
(* FrequencyScanner (Analyzer_Granular.py): setup(), run(), shutdown().    *)
(***************************************************************************)
\* setup() is called
Setup_Begin ==
    /\ \E a \in SetupArgs : Begin("setup", a, "s_open")
    /\ UNCHANGED <<tpi, open_links, all_raw_data, rf_on, det_on>>

\* run() lines 385-386: no controller, RuntimeError
Run_NotSetUp ==
    /\ pc = "ready"
    /\ ~RunAccepted(tpi)
    /\ op' = "run"
    /\ sent' = <<>>
    /\ results' = <<>>
    /\ rf_off_ok' = FALSE
    /\ pending' = NoErr
    /\ td_err' = NoErr
    /\ err' = Err("RuntimeError", "run_guard")
    /\ i' = 0
    /\ reads' = 0
    /\ carried' = <<>>
    /\ frames' = NoFrames
    /\ raw_data' = <<>>
    /\ stale' = (all_raw_data # <<>>)
    /\ \E a \in RunArgs : args' = a
    /\ UNCHANGED <<pc, tpi, open_links, all_raw_data, rf_on, det_on>>

\* run() lines 388-389: results = [], a new accumulation buffer
Run_Begin ==
    /\ RunAccepted(tpi)
    /\ \E a \in RunArgs : Begin("run", a, "r_start")
    /\ all_raw_data' = FreshBuffer(all_raw_data)
    /\ UNCHANGED <<tpi, open_links, rf_on, det_on>>

\* a shutdown() without the test of line 436: the teardown is run on a
\* scanner without controller too
Shutdown_IdleCloses ==
    /\ ~tpi
    /\ Begin("shutdown", NoArgs, "t_rf")
    /\ UNCHANGED <<tpi, open_links, all_raw_data, rf_on, det_on>>

\* shutdown() line 436 on a scanner without controller: nothing to do
Shutdown_Idle ==
    /\ ~tpi
    /\ Begin("shutdown", NoArgs, "ready")
    /\ UNCHANGED <<tpi, open_links, all_raw_data, rf_on, det_on>>

\* shutdown() is called by the user of a scanner that holds a controller
Shutdown_Begin ==
    /\ tpi
    /\ Begin("shutdown", NoArgs, "t_rf")
    /\ UNCHANGED <<tpi, open_links, all_raw_data, rf_on, det_on>>

\* shutdown() line 438, inside try: an exception skips to the finally clause
T_Rf ==
    /\ pc = "t_rf"
    /\ sent' = Append(sent, "rf_off")
    /\ \E o \in Outcomes :
          \/ o = "ok" /\ rf_on' = FALSE /\ rf_off_ok' = TRUE /\ pc' = "t_det"
                      /\ UNCHANGED td_err
          \/ o # "ok" /\ td_err' = Err("RuntimeError", "t_rf") /\ pc' = "t_close"
                      /\ UNCHANGED <<rf_on, rf_off_ok>>
    /\ UNCHANGED <<op, tpi, open_links, all_raw_data, i, reads, args, results,
                   det_on, pending, err, carried, frames,
                   raw_data, stale>>

\* shutdown() line 439, inside try
T_Det ==
    /\ pc = "t_det"
    /\ sent' = Append(sent, "det_off")
    /\ \E o \in Outcomes :
          \/ o = "ok" /\ det_on' = FALSE /\ UNCHANGED td_err
          \/ o # "ok" /\ td_err' = Err("RuntimeError", "t_det") /\ UNCHANGED det_on
    /\ pc' = "t_close"
    /\ UNCHANGED <<op, tpi, open_links, all_raw_data, i, reads, args, results,
                   rf_on, rf_off_ok, pending, err, carried, frames,
                   raw_data, stale>>

\* shutdown() lines 440-442, then what leaves shutdown(): its own exception,
\* else the `raise e` of the except clause that called it, else nothing
T_Close ==
    /\ pc = "t_close"
    /\ sent' = Append(sent, "close")
    /\ open_links' = open_links - 1
    /\ tpi' = FALSE
    /\ Return(IF td_err # NoErr THEN td_err ELSE pending)
    /\ UNCHANGED <<op, all_raw_data, i, reads, results, rf_on, det_on,
                   rf_off_ok, pending, td_err, carried, frames,
                   raw_data, stale>>

Init == ScanInit /\ CodecIdle /\ CtrlIdle /\ FuncIdle

Next ==
    \/ (Setup_Begin /\ UNCHANGED <<codec_vars, ctrl_vars, func_vars>>)
    \/ (S_Open("s_probe") /\ UNCHANGED <<codec_vars, ctrl_vars, func_vars>>)
    \/ (E_Probe1 /\ UNCHANGED <<codec_vars, ctrl_vars, func_vars>>)
    \/ (E_Enable("t_rf") /\ UNCHANGED <<codec_vars, ctrl_vars, func_vars>>)
    \/ (E_Probe2("t_rf") /\ UNCHANGED <<codec_vars, ctrl_vars, func_vars>>)
    \/ (S_Power("t_rf") /\ UNCHANGED <<codec_vars, ctrl_vars, func_vars>>)
    \/ (S_Params("t_rf") /\ UNCHANGED <<codec_vars, ctrl_vars, func_vars>>)
    \/ (S_Det("t_rf") /\ UNCHANGED <<codec_vars, ctrl_vars, func_vars>>)
    \/ (S_Rf("ready", "t_rf") /\ UNCHANGED <<codec_vars, ctrl_vars, func_vars>>)
    \/ (Run_NotSetUp /\ UNCHANGED <<codec_vars, ctrl_vars, func_vars>>)
    \/ (Run_Begin /\ UNCHANGED <<codec_vars, ctrl_vars, func_vars>>)
    \/ (R_Start("t_rf") /\ UNCHANGED <<codec_vars, ctrl_vars, func_vars>>)
    \/ (R_Capture("t_rf") /\ UNCHANGED <<codec_vars, ctrl_vars, func_vars>>)
    \/ (R_LoopEnd /\ UNCHANGED <<codec_vars, ctrl_vars, func_vars>>)
    \/ (R_Decode("ready") /\ UNCHANGED <<codec_vars, ctrl_vars, func_vars>>)
    \/ (Shutdown_Idle /\ UNCHANGED <<codec_vars, ctrl_vars, func_vars>>)
    \/ (Shutdown_Begin /\ UNCHANGED <<codec_vars, ctrl_vars, func_vars>>)
    \/ (T_Rf /\ UNCHANGED <<codec_vars, ctrl_vars, func_vars>>)
    \/ (T_Det /\ UNCHANGED <<codec_vars, ctrl_vars, func_vars>>)
    \/ (T_Close /\ UNCHANGED <<codec_vars, ctrl_vars, func_vars>>)

Spec == Init /\ [][Next]_vars

(***************************************************************************)
(* Codec specification.                                                    *)
(***************************************************************************)
ScanIdle ==
    /\ ScanInit
    /\ ~rf_on
    /\ ~det_on

CodecNext ==
    \/ (C_Build /\ UNCHANGED <<scan_vars, ctrl_vars, func_vars>>)
    \/ (C_Corrupt /\ UNCHANGED <<scan_vars, ctrl_vars, func_vars>>)
    \/ (C_Noise /\ UNCHANGED <<scan_vars, ctrl_vars, func_vars>>)
    \/ (C_Cut /\ UNCHANGED <<scan_vars, ctrl_vars, func_vars>>)
    \/ (C_Read /\ UNCHANGED <<scan_vars, ctrl_vars, func_vars>>)

InitCodec == CodecInit /\ ScanIdle /\ CtrlIdle /\ FuncIdle

CodecSpec == InitCodec /\ [][CodecNext]_vars

(***************************************************************************)
(* scan_frequency_range of "Analyzer Working 20250712.py": one function    *)
(* with the whole sweep in a try block and the cleanup in its finally.     *)
(***************************************************************************)
ScanArgs ==
    {[call |-> "scan", start_khz |-> 1000, stop_khz |-> sp, step_khz |-> 10,
      dwell_ms |-> d] : sp \in {1010, 1011}, d \in {2, 501}}

\* scan_frequency_range is called: results = [], all_raw_data = bytearray()
Scan_Begin ==
    /\ \E a \in ScanArgs : Begin("scan", a, "s_open")
    /\ all_raw_data' = <<>>
    /\ UNCHANGED <<tpi, open_links, rf_on, det_on>>

\* the exception that leaves the function: the local tpi goes out of scope
\* with its port still open
Escape(e) ==
    /\ Return(e)
    /\ tpi' = FALSE

\* finally, line 115: tpi.set_rf_output_state(False)
F_Rf ==
    /\ pc = "f_rf"
    /\ sent' = Append(sent, "rf_off")
    /\ \E o \in Outcomes :
          \/ o = "ok" /\ rf_on' = FALSE /\ rf_off_ok' = TRUE /\ pc' = "f_det"
                      /\ UNCHANGED <<tpi, args, err>>
          \/ o # "ok" /\ Escape(Err("RuntimeError", "f_rf"))
                      /\ UNCHANGED <<rf_on, rf_off_ok>>
    /\ UNCHANGED <<op, open_links, all_raw_data, i, reads, results, det_on,
                   pending, td_err, carried, frames,
                   raw_data, stale>>

\* finally, line 116: tpi.set_detector_state(False)
F_Det ==
    /\ pc = "f_det"
    /\ sent' = Append(sent, "det_off")
    /\ \E o \in Outcomes :
          \/ o = "ok" /\ det_on' = FALSE /\ pc' = "f_close"
                      /\ UNCHANGED <<tpi, args, err>>
          \/ o # "ok" /\ Escape(Err("RuntimeError", "f_det"))
                      /\ UNCHANGED det_on
    /\ UNCHANGED <<op, open_links, all_raw_data, i, reads, results, rf_on,
                   rf_off_ok, pending, td_err, carried, frames,
                   raw_data, stale>>

\* finally, line 117: tpi.close(); then the pending exception, or line 119
F_Close ==
    /\ pc = "f_close"
    /\ sent' = Append(sent, "close")
    /\ open_links' = open_links - 1
    /\ Escape(pending)
    /\ UNCHANGED <<op, all_raw_data, i, reads, results, rf_on, det_on,
                   rf_off_ok, pending, td_err, carried, frames,
                   raw_data, stale>>

ScriptNext ==
    \/ (Scan_Begin /\ UNCHANGED <<codec_vars, ctrl_vars, func_vars>>)
    \/ (S_Open("s_probe") /\ UNCHANGED <<codec_vars, ctrl_vars, func_vars>>)
    \/ (E_Probe1 /\ UNCHANGED <<codec_vars, ctrl_vars, func_vars>>)
    \/ (E_Enable("f_rf") /\ UNCHANGED <<codec_vars, ctrl_vars, func_vars>>)
    \/ (E_Probe2("f_rf") /\ UNCHANGED <<codec_vars, ctrl_vars, func_vars>>)
    \/ (S_Power("f_rf") /\ UNCHANGED <<codec_vars, ctrl_vars, func_vars>>)
    \/ (S_Params("f_rf") /\ UNCHANGED <<codec_vars, ctrl_vars, func_vars>>)
    \/ (S_Det("f_rf") /\ UNCHANGED <<codec_vars, ctrl_vars, func_vars>>)
    \/ (S_Rf("r_start", "f_rf") /\ UNCHANGED <<codec_vars, ctrl_vars, func_vars>>)
    \/ (R_Start("f_rf") /\ UNCHANGED <<codec_vars, ctrl_vars, func_vars>>)
    \/ (R_Capture("f_rf") /\ UNCHANGED <<codec_vars, ctrl_vars, func_vars>>)
    \/ (R_LoopEnd /\ UNCHANGED <<codec_vars, ctrl_vars, func_vars>>)
    \/ (R_Decode("f_rf") /\ UNCHANGED <<codec_vars, ctrl_vars, func_vars>>)
    \/ (F_Rf /\ UNCHANGED <<codec_vars, ctrl_vars, func_vars>>)
    \/ (F_Det /\ UNCHANGED <<codec_vars, ctrl_vars, func_vars>>)
    \/ (F_Close /\ UNCHANGED <<codec_vars, ctrl_vars, func_vars>>)

ScriptSpec == Init /\ [][ScriptNext]_vars

(***************************************************************************)
(* TPIController used directly: __init__, enable_user_control and the      *)
(* set/read/start commands, against a device on the serial link.           *)
(***************************************************************************)
\* largest `retries` argument of TPIController.__init__
MaxRetries == 2

Raise(kind, msg) == [status |-> kind, msg |-> msg, value |-> NoValue]

Ok(v) == [status |-> "ok", msg |-> "", value |-> v]

\* a retry loop that also waits after the last attempt
OpenRetryAgainInclusive(attempt, retries) == attempt <= retries

\* tpi_controller2.py __init__ line 33: if attempt < retries
OpenRetryAgain(attempt, retries) == attempt < retries

\* what one serial.Serial(...) call can do: return an open port, return a
\* port that is not open, raise
OpenOutcomes == {"open", "not_open", "exception"}

\* tpi_controller2.py __init__ is called with retries = r
K_Init2 ==
    /\ kpc = "new"
    /\ kver = 2
    /\ \E r \in 1..MaxRetries :
          kopen' = [retries |-> r, attempt |-> 1, events |-> <<>>]
    /\ kcall' = [name |-> "__init__"]
    /\ kpc' = "open_try"
    /\ UNCHANGED <<kver, klog, kret, dev>>

\* __init__ lines 13-37: one iteration of the retry loop up to the sleep
K_OpenAttempt ==
    /\ kpc = "open_try"
    /\ \E o \in OpenOutcomes :
          /\ kopen' = [kopen EXCEPT !.events = Append(@, o)]
          /\ IF o = "open"
             THEN kpc' = "idle" /\ kret' = Ok(NoValue)
             ELSE IF OpenRetryAgain(kopen.attempt, kopen.retries)
             THEN kpc' = "open_sleep" /\ UNCHANGED kret
             ELSE /\ kpc' = "dead"
                  /\ kret' = Raise("RuntimeError", "Failed to open serial port")
    /\ UNCHANGED <<kver, kcall, klog, dev>>

\* __init__ line 35: time.sleep(retry_delay), then the next attempt; when
\* the range is used up the constructor returns without a port
K_OpenSleep ==
    /\ kpc = "open_sleep"
    /\ kopen' = [kopen EXCEPT !.events = Append(@, "sleep"),
                              !.attempt = @ + 1]
    /\ IF kopen.attempt + 1 <= kopen.retries
       THEN kpc' = "open_try" /\ UNCHANGED kret
       ELSE kpc' = "dead" /\ kret' = Ok(NoValue)
    /\ UNCHANGED <<kver, kcall, klog, dev>>

\* tpi_controller.py __init__: one serial.Serial(...) call, then
\* enable_user_control()
K_Init1 ==
    /\ kpc = "new"
    /\ kver = 1
    /\ kcall' = [name |-> "__init__"]
    /\ \E o \in {"open", "exception"} :
          /\ kopen' = [retries |-> 1, attempt |-> 1, events |-> <<o>>]
          /\ IF o = "open"
             THEN kpc' = "e_probe" /\ UNCHANGED kret
             ELSE kpc' = "dead" /\ kret' = Raise("SerialException", "open")
    /\ UNCHANGED <<kver, klog, dev>>

\* how the device, or the line, answers one command: the echo of the opcode
\* (with data), a rejection, nothing, a frame that stops early, a stray byte
\* before the frame, a frame with a wrong checksum, a one-byte body
ReplyKinds == {"echo", "rejected", "silent", "cut", "noise", "badsum", "short"}

\* the device received and executed the command
Accepted(kind) == kind \in {"echo", "cut", "noise", "badsum"}

\* the body of the device's response to an accepted command
DeviceBody(body, d) ==
    IF Take(body, 2) = <<7, 2>> THEN <<7, 2, 84, 80, 73>>
    ELSE IF Take(body, 2) = <<7, 60>> THEN <<7, 60>> \o d.payload
    ELSE Take(body, 2)

\* the response to a command the device does not carry out (07 FF 01 to a
\* read command while user control is off)
RejectedBody(body) == <<body[1], 255, 1>>

\* the bytes that arrive after the command `body` was written
Stream(kind, body, d) ==
    LET f == BuildPacket(DeviceBody(body, d))
    IN  CASE kind = "echo" -> f
          [] kind = "rejected" -> BuildPacket(RejectedBody(body))
          [] kind = "silent" -> <<>>
          [] kind = "cut" -> Take(f, Len(f) - 2)
          [] kind = "noise" -> <<0>> \o f
          [] kind = "badsum" -> [f EXCEPT ![Len(f)] = (@ + 1) % 256]
          [] kind = "short" -> BuildPacket(<<body[1]>>)

\* _send_command of either controller: write the frame, read the response
SendCommand(ver, body, stream) ==
    [body |-> body,
     r |-> IF ver = 2 THEN ReadResponse(stream) ELSE ReadResponse1(stream)]

\* a check of the first opcode byte only
OpcodeEchoedFirstByte(resp_body, opcode) ==
    Len(resp_body) >= 1 /\ resp_body[1] = opcode[1]

\* resp[:2] == opcode
OpcodeEchoed(resp_body, opcode) == Take(resp_body, 2) = opcode

\* the exception of the reader, as the method's result
Propagate(r) == Raise(r.status, r.msg)

\* where control is after an exchange: the tpi_controller.py reader may
\* never return
AfterExchange(x, next) == IF x.r.status = "hang" THEN "hung" ELSE next

\* where control is when the method in progress ends with `ret`: an
\* exception inside __init__ leaves no controller
AfterCall(ret) ==
    IF kcall.name = "__init__" /\ ret.status # "ok" THEN "dead" ELSE "idle"

\* an enable_user_control that never takes the device for enabled
AlreadyEnabledNever(x) == FALSE

\* enable_user_control: the probe returned a body that starts with 07 02
AlreadyEnabled(x) == x.r.status = "ok" /\ OpcodeEchoed(x.r.body, <<7, 2>>)

\* enable_user_control is called; the probe, whose failure is swallowed
K_EnableProbe ==
    /\ kpc \in {"idle", "e_probe"}
    /\ kcall' = IF kpc = "idle" THEN [name |-> "enable_user_control"] ELSE kcall
    /\ \E k \in ReplyKinds :
          \E x \in {SendCommand(kver, <<7, 2>>, Stream(k, <<7, 2>>, dev))} :
              /\ klog' = <<x>>
              /\ IF x.r.status = "hang"
                 THEN kpc' = "hung" /\ kret' = Raise("none", "")
                 ELSE IF AlreadyEnabled(x)
                 THEN kpc' = "idle" /\ kret' = Ok(NoValue)
                 ELSE kpc' = "e_enable" /\ kret' = Raise("none", "")
    /\ UNCHANGED <<kver, kopen, dev>>

\* enable_user_control: the enable command 08 01
K_EnableSend ==
    /\ kpc = "e_enable"
    /\ \E k \in ReplyKinds :
          \E x \in {SendCommand(kver, <<8, 1>>, Stream(k, <<8, 1>>, dev))} :
          LET ret == IF x.r.status # "ok" THEN Propagate(x.r)
                     ELSE Raise("RuntimeError", "Failed to enable user control.")
          IN  /\ klog' = Append(klog, x)
              /\ IF x.r.status = "ok" /\ OpcodeEchoed(x.r.body, <<8, 1>>)
                 THEN kpc' = "e_verify" /\ UNCHANGED kret
                 ELSE kpc' = AfterExchange(x, AfterCall(ret)) /\ kret' = ret
    /\ UNCHANGED <<kver, kcall, kopen, dev>>

\* enable_user_control: the probe again, as verification
K_EnableVerify ==
    /\ kpc = "e_verify"
    /\ \E k \in ReplyKinds :
          \E x \in {SendCommand(kver, <<7, 2>>, Stream(k, <<7, 2>>, dev))} :
          LET ret == IF x.r.status # "ok" THEN Propagate(x.r)
                     ELSE IF ~OpcodeEchoed(x.r.body, <<7, 2>>)
                     THEN Raise("RuntimeError", "User control verification failed.")
                     ELSE Ok(NoValue)
          IN  /\ klog' = Append(klog, x)
              /\ kpc' = AfterExchange(x, AfterCall(ret))
              /\ kret' = ret
    /\ UNCHANGED <<kver, kcall, kopen, dev>>

\* a range check that lets -91 dBm through
RfPowerOutOfRangeLoose(dbm) == dbm < -91 \/ dbm > 10

\* set_rf_power: if dbm < -90 or dbm > 10
RfPowerOutOfRange(dbm) == dbm < -90 \/ dbm > 10

\* dbm & 0xFF on Python's two's-complement integers
RfPowerByte(dbm) ==
    IF dbm >= 0 THEN dbm % 256 ELSE 255 - ((-dbm - 1) % 256)

DbmInputs == {-128, -91, -90, -1, 0, 10, 11}

\* the body of a single-exchange command met its reader and its echo check
CommandResult(x, msg, value) ==
    IF x.r.status # "ok" THEN Propagate(x.r)
    ELSE IF ~OpcodeEchoed(x.r.body, Take(x.body, 2)) THEN Raise("RuntimeError", msg)
    ELSE Ok(value)

\* set_rf_power(dbm)
K_SetRfPower ==
    /\ kpc = "idle"
    /\ \E dbm \in DbmInputs :
          /\ kcall' = [name |-> "set_rf_power", dbm |-> dbm]
          /\ IF RfPowerOutOfRange(dbm)
             THEN /\ klog' = <<>>
                  /\ kret' = Raise("ValueError", "RF power out of range.")
                  /\ kpc' = "idle"
             ELSE \E k \in ReplyKinds :
                  \E body \in {<<8, 10, RfPowerByte(dbm)>>} :
                  \E x \in {SendCommand(kver, body, Stream(k, body, dev))} :
                        /\ klog' = <<x>>
                        /\ kret' = CommandResult(x, "Failed to set RF power.", NoValue)
                        /\ kpc' = AfterExchange(x, "idle")
    /\ UNCHANGED <<kver, kopen, dev>>

\* start_analyzer_v2(sweeps=0, max_ms_between_packets=1000, aux_input=0)
K_Start ==
    /\ kpc = "idle"
    /\ kcall' = [name |-> "start_analyzer_v2"]
    /\ \E k \in ReplyKinds :
          \E body \in {<<8, 61, 1, 0, 1000 % 256, 1000 \div 256, 0>>} :
          \E x \in {SendCommand(kver, body, Stream(k, body, dev))} :
              /\ klog' = <<x>>
              /\ kret' = CommandResult(x, "Failed to start analyzer.", NoValue)
              /\ kpc' = AfterExchange(x, "idle")
    /\ UNCHANGED <<kver, kopen, dev>>

\* tpi_controller.py lines 168-171
ClampAverages1(a) == IF a < 0 THEN 1 ELSE IF a > 10 THEN 10 ELSE a

\* tpi_controller2.py lines 99-102
ClampAverages2(a) == IF a < 1 THEN 1 ELSE IF a > 10 THEN 10 ELSE a

\* if max_points_per_packet > 50
ClampMaxPoints(m) == IF m > 50 THEN 50 ELSE m

\* v.to_bytes(n, 'little') for 0 <= v < 256^n
ToBytesLE(v, n) ==
    [k \in 1..n |-> (v \div (CASE k = 1 -> 1 [] k = 2 -> 256 [] k = 3 -> 65536
                                  [] k = 4 -> 16777216)) % 256]

\* int.from_bytes(b, 'little')
RECURSIVE FromBytesLE(_)
FromBytesLE(b) ==
    IF Len(b) = 0 THEN 0 ELSE b[1] + 256 * FromBytesLE(Tail(b))

\* arguments of set_analyzer_parameters_v2; the integers fit their fields
BaseParams ==
    [start_khz |-> 16909060, stop_khz |-> 2147483647, step_khz |-> 256,
     dwell_ms |-> 2, num_points |-> 65537, auto_rf |-> TRUE,
     max_points_per_packet |-> 49, averages_per_point |-> 1]

ParamInputs ==
    {[BaseParams EXCEPT !.dwell_ms = d] : d \in {1, 2, 500, 501}}
    \cup {[BaseParams EXCEPT !.averages_per_point = av] : av \in {-1, 0, 1, 10, 11}}
    \cup {[BaseParams EXCEPT !.max_points_per_packet = mp, !.auto_rf = FALSE,
                             !.start_khz = 0, !.dwell_ms = 500] :
              mp \in {0, 50, 51, 255}}

\* set_analyzer_parameters_v2: the body built from the clamped arguments
ParamsBody(ver, p) ==
    <<8, 60>> \o ToBytesLE(p.start_khz, 4) \o ToBytesLE(p.stop_khz, 4)
        \o ToBytesLE(p.step_khz, 4) \o ToBytesLE(p.dwell_ms, 2)
        \o ToBytesLE(p.num_points, 4) \o <<IF p.auto_rf THEN 1 ELSE 0>>
        \o <<ClampMaxPoints(p.max_points_per_packet)>>
        \o <<IF ver = 2 THEN ClampAverages2(p.averages_per_point)
                        ELSE ClampAverages1(p.averages_per_point)>>

\* set_analyzer_parameters_v2(p); a device that accepts the command stores
\* its payload
K_SetParams ==
    /\ kpc = "idle"
    /\ \E p \in ParamInputs :
          /\ kcall' = [name |-> "set_analyzer_parameters_v2", p |-> p]
          /\ IF DwellOutOfRange(p.dwell_ms)
             THEN /\ klog' = <<>>
                  /\ kret' = Raise("ValueError", "Dwell time out of range.")
                  /\ kpc' = "idle"
                  /\ UNCHANGED dev
             ELSE \E k \in ReplyKinds :
                  \E body \in {ParamsBody(kver, p)} :
                  \E x \in {SendCommand(kver, body, Stream(k, body, dev))} :
                        /\ klog' = <<x>>
                        /\ kret' = CommandResult(x, "Failed to set analyzer parameters.",
                                                 NoValue)
                        /\ kpc' = AfterExchange(x, "idle")
                        /\ dev' = IF Accepted(k)
                                  THEN [payload |-> Drop(body, 2), p |-> p]
                                  ELSE dev
    /\ UNCHANGED <<kver, kopen>>

\* a parser that takes max points and averages from each other's byte
ParseParamsSwapped(resp_body) ==
    [start_khz  |-> FromBytesLE(SubSeq(resp_body, 3, 6)),
     stop_khz   |-> FromBytesLE(SubSeq(resp_body, 7, 10)),
     step_khz   |-> FromBytesLE(SubSeq(resp_body, 11, 14)),
     dwell_ms   |-> FromBytesLE(SubSeq(resp_body, 15, 16)),
     num_points |-> FromBytesLE(SubSeq(resp_body, 17, 20)),
     auto_rf    |-> resp_body[21],
     max_points_per_packet |-> resp_body[23],
     averages_per_point    |-> resp_body[22]]

\* read_analyzer_parameters_v2: the dict parsed from the response body
ParseParams(resp_body) ==
    [start_khz  |-> FromBytesLE(SubSeq(resp_body, 3, 6)),
     stop_khz   |-> FromBytesLE(SubSeq(resp_body, 7, 10)),
     step_khz   |-> FromBytesLE(SubSeq(resp_body, 11, 14)),
     dwell_ms   |-> FromBytesLE(SubSeq(resp_body, 15, 16)),
     num_points |-> FromBytesLE(SubSeq(resp_body, 17, 20)),
     auto_rf    |-> resp_body[21],
     max_points_per_packet |-> resp_body[22],
     averages_per_point    |-> resp_body[23]]

\* read_analyzer_parameters_v2()
K_ReadParams ==
    /\ kpc = "idle"
    /\ kcall' = [name |-> "read_analyzer_parameters_v2"]
    /\ \E k \in ReplyKinds :
          \E body \in {<<7, 60>>} :
          \E x \in {SendCommand(kver, body, Stream(k, body, dev))} :
          LET checked == CommandResult(x, "Unexpected response reading analyzer parameters.",
                                       NoValue)
          IN  /\ klog' = <<x>>
              /\ kret' = IF checked.status # "ok" THEN checked
                         ELSE IF Len(x.r.body) < 23 THEN Raise("IndexError", "resp")
                         ELSE Ok(ParseParams(x.r.body))
              /\ kpc' = AfterExchange(x, "idle")
    /\ UNCHANGED <<kver, kopen, dev>>

\* a pause on the link that outlasts the 2-second read timeout
Gap == 0 - 1

\* ser.read(n) with the timeout set at line 165: up to n of the bytes that
\* arrive before the next pause; a read that meets the pause uses it up.
\* Behind the last byte of `stream` the link stays silent.
RECURSIVE TimedRead(_, _)
TimedRead(stream, n) ==
    IF n = 0 \/ stream = <<>>
    THEN [data |-> <<>>, rest |-> stream]
    ELSE IF Head(stream) = Gap
    THEN [data |-> <<>>, rest |-> Tail(stream)]
    ELSE LET more == TimedRead(Tail(stream), n - 1)
         IN  [data |-> <<Head(stream)>> \o more.data, rest |-> more.rest]

\* a reader that accepts every checksum byte
PacketChecksumAny(length_bytes, body, checksum) == TRUE

\* read_analyzer_data_v2 lines 224-225
PacketChecksumOk(length_bytes, body, checksum) ==
    checksum[1] = (255 - ((length_bytes[1] + length_bytes[2] + Sum(body)) % 256)) % 256

\* read_analyzer_data_v2 lines 237-247: the points of one data packet
StorePoints(all_points, body) ==
    LET n_points   == body[3]
        first_step == FromBytesLE(SubSeq(body, 4, 7))
        data_bytes == Drop(body, 7)
        steps      == {first_step + j : j \in 0..(n_points - 1)}
    IN  [k \in (DOMAIN all_points) \cup steps |->
            IF k \in steps
            THEN UnpackFloatLE(SubSeq(data_bytes, 4 * (k - first_step) + 1,
                                      4 * (k - first_step) + 4))
            ELSE all_points[k]]

\* read_analyzer_data_v2 lines 198-258, behind the marker AA 55: what is
\* left of the stream, the points, and whether the loop ends
HandleFrame(stream, all_points) ==
    LET length_bytes == TimedRead(stream, 2)
        length       == length_bytes.data[1] * 256 + length_bytes.data[2]
        body         == TimedRead(length_bytes.rest, length)
        checksum     == TimedRead(body.rest, 1)
        skip(rest)   == [rest |-> rest, all_points |-> all_points, stop |-> FALSE]
    IN  IF Len(length_bytes.data) < 2 THEN skip(length_bytes.rest)
        ELSE IF Len(body.data) < length THEN skip(body.rest)
        ELSE IF Len(checksum.data) < 1 THEN skip(checksum.rest)
        ELSE IF ~PacketChecksumOk(length_bytes.data, body.data, checksum.data)
        THEN skip(checksum.rest)
        ELSE IF Take(body.data, 2) = <<7, 62>>
        THEN IF Len(body.data) < 7 THEN skip(checksum.rest)
             ELSE IF Len(body.data) - 7 < body.data[3] * 4 THEN skip(checksum.rest)
             ELSE [rest |-> checksum.rest,
                   all_points |-> StorePoints(all_points, body.data),
                   stop |-> FALSE]
        ELSE IF Take(body.data, 2) = <<7, 63>>
        THEN [rest |-> checksum.rest, all_points |-> all_points, stop |-> TRUE]
        ELSE skip(checksum.rest)

\* what read_analyzer_data_v2 returns: the dict, or None
PointsDict(all_points) == [none |-> FALSE, points |-> all_points]

None == [none |-> TRUE, points |-> <<>>]

\* tpi_controller2.py read_analyzer_data_v2
RECURSIVE ReadAnalyzerData2(_, _, _)
ReadAnalyzerData2(stream, all_points, timeout_count) ==
    LET b1 == TimedRead(stream, 1)
        b2 == TimedRead(b1.rest, 1)
    IN  IF b1.data = <<>>
        THEN IF timeout_count + 1 > 2
             THEN Ok(None)
             ELSE ReadAnalyzerData2(b1.rest, all_points, timeout_count + 1)
        ELSE IF b1.data # <<170>>
        THEN ReadAnalyzerData2(b1.rest, all_points, 0)
        ELSE IF b2.data = <<>>
        THEN ReadAnalyzerData2(b2.rest, all_points, 1)
        ELSE IF b2.data # <<85>>
        THEN ReadAnalyzerData2(b2.rest, all_points, 0)
        ELSE LET h == HandleFrame(b2.rest, all_points)
             IN  IF h.stop
                 THEN Ok(PointsDict(h.all_points))
                 ELSE ReadAnalyzerData2(h.rest, h.all_points, 0)

\* tpi_controller.py read_analyzer_data_v2: a timed-out read is repeated;
\* on a link that stays silent the loop never ends
RECURSIVE ReadAnalyzerData1(_, _)
ReadAnalyzerData1(stream, all_points) ==
    LET b1 == TimedRead(stream, 1)
        b2 == TimedRead(b1.rest, 1)
    IN  IF stream = <<>>
        THEN Raise("hang", "read(1) is retried for ever")
        ELSE IF b1.data # <<170>>
        THEN ReadAnalyzerData1(b1.rest, all_points)
        ELSE IF b2.data # <<85>>
        THEN ReadAnalyzerData1(b2.rest, all_points)
        ELSE LET h == HandleFrame(b2.rest, all_points)
             IN  IF h.stop
                 THEN Ok(PointsDict(h.all_points))
                 ELSE ReadAnalyzerData1(h.rest, h.all_points)

\* most frames and pauses the device sends during one read
MaxItems == 4

Item(kind, first_step, floats) ==
    [kind |-> kind, first_step |-> first_step, floats |-> floats]

\* what the device can put on the link: data packets (the second overlaps
\* the first in step 1), a data packet with a wrong checksum, one cut short
\* and followed by a pause, one cut short with the next bytes right behind
\* it, one that announces more points than it carries, a response with
\* another opcode, the stop notification, one with a wrong checksum, and a
\* pause
StreamItems ==
    {Item("data", 0, F0 \o F15), Item("data", 1, F0),
     Item("badsum", 2, F15), Item("trunc", 2, F15), Item("cut", 2, F15),
     Item("short", 2, F15),
     Item("other", 0, <<>>), Item("stop", 0, <<>>), Item("badstop", 0, <<>>),
     Item("gap", 0, <<>>)}

DataBody(n_points, first_step, floats) ==
    <<7, 62, n_points>> \o ToBytesLE(first_step, 4) \o floats

WrongChecksum(packet) ==
    [packet EXCEPT ![Len(packet)] = (@ + 1) % 256]

\* the bytes and pauses of one item
ItemBytes(item) ==
    CASE item.kind = "data" ->
           BuildPacket(DataBody(Len(item.floats) \div 4, item.first_step, item.floats))
      [] item.kind = "badsum" ->
           WrongChecksum(BuildPacket(DataBody(Len(item.floats) \div 4,
                                              item.first_step, item.floats)))
      [] item.kind = "trunc" ->
           Take(BuildPacket(DataBody(Len(item.floats) \div 4,
                                     item.first_step, item.floats)), 13) \o <<Gap>>
      [] item.kind = "cut" ->
           Take(BuildPacket(DataBody(Len(item.floats) \div 4,
                                     item.first_step, item.floats)), 13)
      [] item.kind = "short" ->
           BuildPacket(DataBody(Len(item.floats) \div 4 + 1,
                                item.first_step, item.floats))
      [] item.kind = "other" -> BuildPacket(<<7, 2>>)
      [] item.kind = "stop" -> Sentinel
      [] item.kind = "badstop" -> WrongChecksum(Sentinel)
      [] item.kind = "gap" -> <<Gap>>

RECURSIVE StreamOf(_)
StreamOf(items) ==
    IF items = <<>> THEN <<>> ELSE ItemBytes(Head(items)) \o StreamOf(Tail(items))

\* close(): the port is closed; the object is not used again
K_Close ==
    /\ kpc = "idle"
    /\ kcall' = [name |-> "close"]
    /\ klog' = <<>>
    /\ kret' = Ok(NoValue)
    /\ kpc' = "closed"
    /\ UNCHANGED <<kver, kopen, dev>>

CtrlInit ==
    /\ kpc = "new"
    /\ kver \in {1, 2}
    /\ kcall = NoCall
    /\ klog = <<>>
    /\ kret = Raise("none", "")
    /\ kopen = NotOpened
    /\ dev = DevInit

InitCtrl == CtrlInit /\ ScanIdle /\ CodecIdle /\ FuncIdle

CtrlNext ==
    \/ (K_Init2 /\ UNCHANGED <<scan_vars, codec_vars, func_vars>>)
    \/ (K_OpenAttempt /\ UNCHANGED <<scan_vars, codec_vars, func_vars>>)
    \/ (K_OpenSleep /\ UNCHANGED <<scan_vars, codec_vars, func_vars>>)
    \/ (K_Init1 /\ UNCHANGED <<scan_vars, codec_vars, func_vars>>)
    \/ (K_EnableProbe /\ UNCHANGED <<scan_vars, codec_vars, func_vars>>)
    \/ (K_EnableSend /\ UNCHANGED <<scan_vars, codec_vars, func_vars>>)
    \/ (K_EnableVerify /\ UNCHANGED <<scan_vars, codec_vars, func_vars>>)
    \/ (K_SetRfPower /\ UNCHANGED <<scan_vars, codec_vars, func_vars>>)
    \/ (K_Start /\ UNCHANGED <<scan_vars, codec_vars, func_vars>>)
    \/ (K_SetParams /\ UNCHANGED <<scan_vars, codec_vars, func_vars>>)
    \/ (K_ReadParams /\ UNCHANGED <<scan_vars, codec_vars, func_vars>>)
    \/ (K_Close /\ UNCHANGED <<scan_vars, codec_vars, func_vars>>)

CtrlSpec == InitCtrl /\ [][CtrlNext]_vars

(***************************************************************************)
(* Analysis functions of Analyzer_Granular.py.  Real values are fixed-point *)
(* integers: VSWR in thousandths, reflection coefficients in millionths.   *)
(***************************************************************************)
Result(v) == [status |-> "ok", value |-> v]

Exc(kind) == [status |-> kind]

\* a function is called with the arguments `a`
Called(name) == fin.fn = name /\ fout = NoOut

NumPointsInputs ==
    {[fn |-> "calculate_num_points", start_khz |-> 100000, stop_khz |-> sp,
      step_khz |-> 1000] : sp \in {200000, 200001}}
    \cup {[fn |-> "calculate_num_points", start_khz |-> st, stop_khz |-> sp,
           step_khz |-> step] :
             st \in {1000, 1010}, sp \in {1000, 1005, 1010, 1011},
             step \in {0, 1, 10}}

\* calculate_num_points(start_khz, stop_khz, step_khz)
F_CalculateNumPoints ==
    /\ Called("calculate_num_points")
    /\ LET n == CalculateNumPoints(fin.start_khz, fin.stop_khz, fin.step_khz)
       IN  fout' = IF n.ok THEN Result(n.value) ELSE Exc(n.kind)
    /\ UNCHANGED <<fin, facc>>

\* 10 ** (-abs(return_loss_db) / 20) in millionths, for whole dB values and
\* for the infinities (10 ** -inf is 0.0)
ReflectionCoefficient(x) ==
    IF x.cls \in {"inf", "-inf"}
    THEN 0
    ELSE LET a == IF x.val < 0 THEN -x.val ELSE x.val
         IN  CASE a = 0 -> 1000000
               [] a = 1 -> 891251
               [] a = 2 -> 794328
               [] a = 3 -> 707946
               [] a = 6 -> 501187
               [] a = 10 -> 316228
               [] a = 14 -> 199526
               [] a = 20 -> 100000
               [] a = 26 -> 50119
               [] a = 30 -> 31623
               [] a = 40 -> 10000
               [] a = 60 -> 1000
               [] a = 400 -> 0

\* arguments of calculate_vswr: numbers in dB, non-finite floats, other types
VswrInputs ==
    {[fn |-> "calculate_vswr", type |-> t, cls |-> "finite", val |-> v] :
        t \in {"int", "float"},
        v \in {0, 1, 2, 3, 6, 10, 14, 20, 26, 30, 40, 60, 400,
               -1, -3, -6, -20, -26, -40}}
    \cup {[fn |-> "calculate_vswr", type |-> "float", cls |-> c, val |-> 0] :
             c \in {"nan", "inf", "-inf"}}
    \cup {[fn |-> "calculate_vswr", type |-> t, cls |-> "other", val |-> 0] :
             t \in {"str", "NoneType", "list"}}

\* a function that returns the computed ratio as it is
ClampVswrNone(vswr) == vswr

\* calculate_vswr lines 274-279
ClampVswr(vswr) ==
    IF vswr < 1100 THEN 1100 ELSE IF vswr > 5000 THEN 5000 ELSE vswr

\* calculate_vswr(return_loss_db), in thousandths
CalculateVswr(x) ==
    IF x.type \notin {"int", "float"} \/ x.cls = "nan"
    THEN 5000
    ELSE LET reflection_coefficient == ReflectionCoefficient(x)
         IN  IF reflection_coefficient >= 1000000
             THEN 5000
             ELSE ClampVswr(((1000000 + reflection_coefficient) * 1000)
                                \div (1000000 - reflection_coefficient))

F_CalculateVswr ==
    /\ Called("calculate_vswr")
    /\ fout' = Result(CalculateVswr(fin))
    /\ UNCHANGED <<fin, facc>>

\* sorted(vswr_data, key=lambda x: x[0]): stable, ascending by frequency
RECURSIVE SortedByFreq(_)
SortedByFreq(s) ==
    IF s = <<>>
    THEN <<>>
    ELSE LET rest == SortedByFreq(Tail(s))
             k    == Cardinality({j \in DOMAIN rest : rest[j].f < Head(s).f})
         IN  SubSeq(rest, 1, k) \o <<Head(s)>> \o SubSeq(rest, k + 1, Len(rest))

\* evaluate_vswr_range lines 572-577: the points kept for the segment check
RelevantPoints(sorted_data, freq_low, freq_high) ==
    LET kept == {k \in DOMAIN sorted_data :
                    /\ \/ sorted_data[k].f >= freq_low
                       \/ (k > 1 /\ sorted_data[k - 1].f < freq_low)
                    /\ \A j \in 1..(k - 1) : sorted_data[j].f <= freq_high}
        Nth(n) == CHOOSE k \in kept : Cardinality({j \in kept : j < k}) = n - 1
    IN  [n \in 1..Cardinality(kept) |-> sorted_data[Nth(n)]]

\* vswr1 + slope * (x - freq1) > vswr_limit, with slope =
\* (vswr2 - vswr1) / (freq2 - freq1) and freq1 < freq2, in exact arithmetic
InterpolatedExceeds(p1, p2, x, vswr_limit) ==
    p1.v * (p2.f - p1.f) + (p2.v - p1.v) * (x - p1.f) > vswr_limit * (p2.f - p1.f)

\* evaluate_vswr_range lines 580-604: the segment makes the function return
\* False
SegmentFails(p1, p2, freq_low, freq_high, vswr_limit) ==
    /\ ~(p1.f > freq_high \/ p2.f < freq_low)
    /\ (p1.v > vswr_limit \/ p2.v > vswr_limit)
    /\ LET check_start == IF p1.f > freq_low THEN p1.f ELSE freq_low
           check_end   == IF p2.f < freq_high THEN p2.f ELSE freq_high
       IN  \/ InterpolatedExceeds(p1, p2, check_start, vswr_limit)
           \/ InterpolatedExceeds(p1, p2, check_end, vswr_limit)

\* a range check that looks at the lower end only
OutOfSpanLowOnly(sorted_data, freq_low, freq_high) ==
    freq_low < sorted_data[1].f

\* evaluate_vswr_range lines 565-569: the range leaves the measured span
OutOfSpan(sorted_data, freq_low, freq_high) ==
    \/ freq_low < sorted_data[1].f
    \/ freq_high > sorted_data[Len(sorted_data)].f

\* evaluate_vswr_range(vswr_data, freq_low, freq_high, vswr_limit) for
\* points with distinct frequencies
EvaluateVswrRange(vswr_data, freq_low, freq_high, vswr_limit) ==
    LET sorted_data == SortedByFreq(vswr_data)
    IN  IF sorted_data = <<>>
        THEN Exc("IndexError")
        ELSE IF OutOfSpan(sorted_data, freq_low, freq_high)
        THEN Exc("ValueError")
        ELSE LET rel == RelevantPoints(sorted_data, freq_low, freq_high)
             IN  Result(~\E k \in 1..(Len(rel) - 1) :
                     SegmentFails(rel[k], rel[k + 1], freq_low, freq_high,
                                  vswr_limit))

\* the span of the list covers [freq_low, freq_high]
Covers(data, freq_low, freq_high) ==
    /\ data # <<>>
    /\ \E k \in DOMAIN data : data[k].f <= freq_low
    /\ \E k \in DOMAIN data : data[k].f >= freq_high

\* the two lists have the same points at the frequencies of the range
AgreeInside(d1, d2, freq_low, freq_high) ==
    {d1[k] : k \in {j \in DOMAIN d1 : d1[j].f >= freq_low /\ d1[j].f <= freq_high}}
    = {d2[k] : k \in {j \in DOMAIN d2 : d2[j].f >= freq_low /\ d2[j].f <= freq_high}}

\* arguments of two calls of evaluate_vswr_range with the same range and
\* limit (1.5): every list of points at some of the frequencies 0, 10, 20, 30
\* with the values 1.0 and 3.0; the second list differs from the first
\* outside the range only; and the crossing-segment example, not sorted
EvalInputs ==
    LET freqs == <<0, 10, 20, 30>>
        PointList(g) ==
            SelectSeq([k \in DOMAIN freqs |-> [f |-> freqs[k], v |-> g[k]]],
                      LAMBDA p : p.v # 0)
        PointLists == {PointList(g) : g \in [DOMAIN freqs -> {0, 1000, 3000}]}
        crossing == <<[f |-> 1616000, v |-> 1200], [f |-> 1621000, v |-> 1800],
                      [f |-> 1626500, v |-> 1300]>>
    IN  {a \in {[fn |-> "evaluate_vswr_range", data |-> d, data2 |-> d2,
                 freq_low |-> lo, freq_high |-> hi, vswr_limit |-> 1500] :
                    d \in PointLists, d2 \in PointLists,
                    lo \in {0, 5, 10, 15}, hi \in {15, 20, 30, 35}} :
            IF Covers(a.data, a.freq_low, a.freq_high)
            THEN /\ Covers(a.data2, a.freq_low, a.freq_high)
                 /\ AgreeInside(a.data, a.data2, a.freq_low, a.freq_high)
            ELSE a.data2 = a.data}
        \cup {[fn |-> "evaluate_vswr_range",
               data |-> <<crossing[3], crossing[1], crossing[2]>>,
               data2 |-> crossing, freq_low |-> 1616000,
               freq_high |-> 1626500, vswr_limit |-> 1500]}

\* evaluate_vswr_range is called on each of the two lists
F_EvaluateVswrRange ==
    /\ Called("evaluate_vswr_range")
    /\ fout' = [status |-> "ok",
                first  |-> EvaluateVswrRange(fin.data, fin.freq_low,
                                             fin.freq_high, fin.vswr_limit),
                second |-> EvaluateVswrRange(fin.data2, fin.freq_low,
                                             fin.freq_high, fin.vswr_limit)]
    /\ UNCHANGED <<fin, facc>>

\* largest num_captures argument of get_highest_baseline
MaxCaptures == 3

\* what scanner.run() can return to get_highest_baseline: the values of a
\* capture (its frequencies are start_khz + i * step_khz in each capture);
\* the means are 5, 5, 9, 9, 9, 7, -1, and one capture is empty
Captures ==
    {<<>>, <<5>>, <<4, 6>>, <<9>>, <<8, 10>>, <<9, 9>>, <<7>>, <<0 - 3, 1>>}

BaselineInputs ==
    {[fn |-> "get_highest_baseline", num_captures |-> n] : n \in 0..MaxCaptures}

\* avg_value of capture a is greater than avg_value of capture b
\* (sum(values) / len(values), both captures not empty)
AvgGreater(a, b) == Sum(a) * Len(b) > Sum(b) * Len(a)

\* a selection that takes the last of the captures with the highest average
HighestIdxLast(baselines) ==
    CHOOSE k \in DOMAIN baselines :
        /\ \A j \in DOMAIN baselines : ~AvgGreater(baselines[j], baselines[k])
        /\ \A j \in DOMAIN baselines :
              j > k => AvgGreater(baselines[k], baselines[j])

\* line 470: baseline_averages.index(max(baseline_averages)), the first
\* position that holds the greatest average
HighestIdx(baselines) ==
    LET IsMax(k) ==
            \A j \in DOMAIN baselines : ~AvgGreater(baselines[j], baselines[k])
    IN  CHOOSE k \in DOMAIN baselines :
            IsMax(k) /\ \A j \in 1..(k - 1) : ~IsMax(j)

\* lines 461-468: one pass of the loop; the average of an empty capture
\* divides by zero
F_BaselineRun ==
    /\ Called("get_highest_baseline")
    /\ Len(facc) < fin.num_captures
    /\ \E baseline \in Captures :
          /\ facc' = Append(facc, baseline)
          /\ fout' = IF baseline = <<>> THEN Exc("ZeroDivisionError") ELSE fout
    /\ UNCHANGED fin

\* lines 470-474, after the loop; max() of no averages raises ValueError
F_BaselineSelect ==
    /\ Called("get_highest_baseline")
    /\ Len(facc) = fin.num_captures
    /\ fout' = IF facc = <<>>
               THEN Exc("ValueError")
               ELSE Result(facc[HighestIdx(facc)])
    /\ UNCHANGED <<fin, facc>>

\* largest number of points of the sweep and of the baseline given to
\* subtract_baseline
MaxSweep == 2

\* sweeps and baselines of subtract_baseline; values in tenths of a dB.  A
\* baseline may lack a frequency of the sweep, hold a frequency the sweep
\* lacks, and hold a frequency twice
SubtractInputs ==
    LET sweeps ==
            SeqsUpTo({[f |-> fr, v |-> va] :
                         fr \in {1000, 1010, 1020}, va \in {0 - 15, 20}}, MaxSweep)
        baselines ==
            SeqsUpTo({[f |-> fr, v |-> va] :
                         fr \in {1000, 1010, 1030}, va \in {0 - 5, 10}}, MaxSweep)
    IN  {[fn |-> "subtract_baseline", results |-> s, baseline |-> b] :
            s \in sweeps, b \in baselines}

\* a lookup that takes the first baseline entry whatever its frequency
BaselineLookupAny(baseline, freq) ==
    IF baseline = <<>>
    THEN [found |-> FALSE, value |-> 0]
    ELSE [found |-> TRUE, value |-> baseline[1].v]

\* lines 308 and 313-314: baseline_dict, in which a later entry replaces an
\* earlier one of the same frequency, and its lookup
BaselineLookup(baseline, freq) ==
    LET ks == {k \in DOMAIN baseline : baseline[k].f = freq}
    IN  IF ks = {}
        THEN [found |-> FALSE, value |-> 0]
        ELSE [found |-> TRUE,
              value |-> baseline[CHOOSE k \in ks : \A j \in ks : j <= k].v]

\* subtract_baseline(results, baseline), lines 311-320 (sweep is its
\* argument `results`)
SubtractBaseline(sweep, baseline) ==
    [n \in 1..Len(sweep) |->
        LET b == BaselineLookup(baseline, sweep[n].f)
        IN  [f |-> sweep[n].f,
             v |-> IF b.found THEN sweep[n].v - b.value ELSE sweep[n].v]]

F_SubtractBaseline ==
    /\ Called("subtract_baseline")
    /\ fout' = Result(SubtractBaseline(fin.results, fin.baseline))
    /\ UNCHANGED <<fin, facc>>

\* largest interpolation_factor argument of interpolated()
MaxFactor == 2

\* arguments of interpolated(): 3 to 5 points at distinct frequencies with
\* gaps of 1, 2, 7 and 10 kHz and more, in ascending and in descending
\* order; values in units of 0.0001, none half-way between two multiples of
\* 0.001
InterpInputs ==
    LET value == [f \in {1000, 1001, 1003, 1010, 1020} |->
                    CASE f = 1000 -> 12000 [] f = 1001 -> 12344
                      [] f = 1003 -> 18006 [] f = 1010 -> 13000
                      [] f = 1020 -> 25556]
        Points(S) == {[f |-> fr, v |-> value[fr]] : fr \in S}
        Ascending(S) ==
            CHOOSE s \in [1..Cardinality(S) -> Points(S)] :
                \A j \in 1..(Cardinality(S) - 1) : s[j].f < s[j + 1].f
        Descending(S) ==
            [j \in 1..Cardinality(S) |-> Ascending(S)[Cardinality(S) + 1 - j]]
    IN  {[fn |-> "interpolated", vswr_data |-> d, interpolation_factor |-> k,
          method |-> mth] :
            d \in UNION {{Ascending(S), Descending(S)} :
                            S \in {T \in SUBSET DOMAIN value : Cardinality(T) >= 3}},
            k \in 0..MaxFactor, mth \in {"cubic", "none"}}

\* values that the spline of scipy (CubicSpline, not part of the
\* repository) may give at a new frequency
SplineValues == {11004, 30006}

\* a round() that leaves the value as it is
Round3None(v) == v

\* round(v, 3) of a value v >= 0 given in units of 0.0001
Round3(v) == ((v + 5) \div 10) * 10

\* lines 107-117: the frequencies added between freq1 and freq2
NewFreqs(freq1, freq2, interpolation_factor) ==
    LET step == (freq2 - freq1) \div (interpolation_factor + 1)
        n    == IF step < 1 THEN 0
                ELSE Cardinality({j \in 1..interpolation_factor :
                        \A h \in 1..j : freq1 + h * step < freq2})
    IN  [j \in 1..n |-> freq1 + j * step]

\* lines 102-120: the points appended for the pairs from position k on; cs
\* gives the value of the spline at each new frequency
RECURSIVE AddedPoints(_, _, _, _)
AddedPoints(sorted_data, k, interpolation_factor, cs) ==
    IF k >= Len(sorted_data)
    THEN <<>>
    ELSE LET nf == NewFreqs(sorted_data[k].f, sorted_data[k + 1].f,
                            interpolation_factor)
         IN  [j \in DOMAIN nf |-> [f |-> nf[j], v |-> Round3(cs[nf[j]])]]
             \o AddedPoints(sorted_data, k + 1, interpolation_factor, cs)

\* a test that lets three points through
TooFewPointsThree(sorted_data) == Len(sorted_data) < 3

\* line 81: if len(sorted_data) < 4
TooFewPoints(sorted_data) == Len(sorted_data) < 4

\* interpolated(vswr_data, interpolation_factor, method) with integer
\* frequencies and a spline that can be built
F_Interpolated ==
    /\ Called("interpolated")
    /\ IF fin.method = "none" \/ fin.interpolation_factor < 1
       THEN fout' = Result([k \in DOMAIN fin.vswr_data |->
                               [f |-> fin.vswr_data[k].f,
                                v |-> Round3(fin.vswr_data[k].v)]])
       ELSE LET sorted_data == SortedByFreq(fin.vswr_data)
                originals   == [k \in DOMAIN sorted_data |->
                                   [f |-> sorted_data[k].f,
                                    v |-> Round3(sorted_data[k].v)]]
                new_freqs   ==
                    UNION {{NewFreqs(sorted_data[k].f, sorted_data[k + 1].f,
                                     fin.interpolation_factor)[j] :
                               j \in DOMAIN NewFreqs(sorted_data[k].f,
                                                     sorted_data[k + 1].f,
                                                     fin.interpolation_factor)} :
                             k \in 1..(Len(sorted_data) - 1)}
            IN  IF TooFewPoints(sorted_data)
                THEN fout' = Exc("ValueError")
                ELSE \E cs \in [new_freqs -> SplineValues] :
                        fout' = Result(SortedByFreq(
                                    originals \o
                                    AddedPoints(sorted_data, 1,
                                                fin.interpolation_factor, cs)))
    /\ UNCHANGED <<fin, facc>>

\* arguments of add_vswr_criterion_points: lists of 4 and 5 points, one not
\* sorted, one of 3 points, the empty list, and two lists that hold 1000 kHz
\* twice; values in units of 0.0001, some with a fourth decimal; each of the
\* three criterion frequencies below, inside (measured or not) and above the
\* span
CriterionInputs ==
    LET P(fr, va) == [f |-> fr, v |-> va]
        four == <<P(1000, 12000), P(1010, 12344), P(1020, 18006), P(1030, 13000)>>
    IN  {[fn |-> "add_vswr_criterion_points", vswr_data |-> d,
          vswr_start_khz |-> a, vswr_mid_khz |-> b, vswr_stop_khz |-> c] :
            d \in {four,
                   <<four[3], four[1], four[4], four[2]>>,
                   Append(four, P(1040, 25556)),
                   SubSeq(four, 1, 3),
                   <<>>,
                   <<P(1000, 15000)>> \o four,
                   <<P(1000, 12000)>> \o four},
            a \in {990, 1000, 1005, 1010},
            b \in {1000, 1005, 1015, 1035},
            c \in {1005, 1020, 1030, 1040}}

\* a range test that looks at the start and stop criterion only
CriterionOutsideEnds(criterion_freqs, freq_min, freq_max) ==
    \E k \in {1, 3} :
        criterion_freqs[k] < freq_min \/ criterion_freqs[k] > freq_max

\* lines 165-168: a criterion frequency lies outside the measured range
CriterionOutside(criterion_freqs, freq_min, freq_max) ==
    \E k \in DOMAIN criterion_freqs :
        criterion_freqs[k] < freq_min \/ criterion_freqs[k] > freq_max

\* line 186: sorted(result, key=lambda x: x[0]) of a set of points; points of
\* one frequency come in the order in which the set yields them
RECURSIVE SortedFromSet(_)
SortedFromSet(points) ==
    IF points = {}
    THEN {<<>>}
    ELSE UNION {{<<m>> \o s : s \in SortedFromSet(points \ {m})} :
                  m \in {p \in points : \A q \in points : p.f <= q.f}}

\* add_vswr_criterion_points with integer frequencies.  interp1d of scipy
\* (not part of the repository) raises ValueError for fewer than 4 points;
\* for frequencies that are not unique its behaviour is undefined: it
\* raises, or gives an interpolant
F_AddCriterionPoints ==
    /\ Called("add_vswr_criterion_points")
    /\ LET typed_data  == [k \in DOMAIN fin.vswr_data |->
                              [f |-> fin.vswr_data[k].f,
                               v |-> Round3(fin.vswr_data[k].v)]]
           sorted_data == SortedByFreq(typed_data)
           freqs       == {typed_data[k].f : k \in DOMAIN typed_data}
           criterion_freqs ==
               <<fin.vswr_start_khz, fin.vswr_mid_khz, fin.vswr_stop_khz>>
           absent == {criterion_freqs[k] : k \in 1..3} \ freqs
       IN  IF typed_data = <<>>
           THEN fout' = Exc("ValueError")
           ELSE IF CriterionOutside(criterion_freqs, sorted_data[1].f,
                                    sorted_data[Len(sorted_data)].f)
           THEN fout' = Exc("ValueError")
           ELSE IF Len(typed_data) < 4
           THEN fout' = Exc("ValueError")
           ELSE \/ /\ Cardinality(freqs) < Len(typed_data)
                   /\ fout' = Exc("ValueError")
                \/ \E interp_func \in [absent -> SplineValues] :
                     \E out \in SortedFromSet(
                            {typed_data[k] : k \in DOMAIN typed_data} \cup
                            {[f |-> fr, v |-> Round3(interp_func[fr])] :
                                fr \in absent}) :
                        fout' = Result(out)
    /\ UNCHANGED <<fin, facc>>

FuncInit ==
    /\ fin \in NumPointsInputs \cup VswrInputs \cup EvalInputs
                 \cup BaselineInputs \cup SubtractInputs \cup InterpInputs
                 \cup CriterionInputs
    /\ facc = <<>>
    /\ fout = NoOut

InitFunc == FuncInit /\ ScanIdle /\ CodecIdle /\ CtrlIdle

FuncNext ==
    \/ (F_CalculateNumPoints /\ UNCHANGED <<scan_vars, codec_vars, ctrl_vars>>)
    \/ (F_CalculateVswr /\ UNCHANGED <<scan_vars, codec_vars, ctrl_vars>>)
    \/ (F_EvaluateVswrRange /\ UNCHANGED <<scan_vars, codec_vars, ctrl_vars>>)
    \/ (F_BaselineRun /\ UNCHANGED <<scan_vars, codec_vars, ctrl_vars>>)
    \/ (F_BaselineSelect /\ UNCHANGED <<scan_vars, codec_vars, ctrl_vars>>)
    \/ (F_SubtractBaseline /\ UNCHANGED <<scan_vars, codec_vars, ctrl_vars>>)
    \/ (F_Interpolated /\ UNCHANGED <<scan_vars, codec_vars, ctrl_vars>>)
    \/ (F_AddCriterionPoints /\ UNCHANGED <<scan_vars, codec_vars, ctrl_vars>>)

FuncSpec == InitFunc /\ [][FuncNext]_vars

(***************************************************************************)
(* read_analyzer_data_v2 of both controller files, applied to what the     *)
(* device sends.                                                           *)
(***************************************************************************)
\* the calls of read_analyzer_data_v2: the controller file and what the
\* device sends during the call
ReadInputs ==
    {[fn |-> "read_analyzer_data_v2", ver |-> v, items |-> items] :
        v \in {1, 2}, items \in SeqsUpTo(StreamItems, MaxItems)}

\* read_analyzer_data_v2() while the device sends fin.items
K_ReadData ==
    /\ Called("read_analyzer_data_v2")
    /\ fout' = IF fin.ver = 2
               THEN ReadAnalyzerData2(StreamOf(fin.items), <<>>, 0)
               ELSE ReadAnalyzerData1(StreamOf(fin.items), <<>>)
    /\ UNCHANGED <<fin, facc>>

ReadInit ==
    /\ fin \in ReadInputs
    /\ facc = <<>>
    /\ fout = NoOut

InitRead == ReadInit /\ ScanIdle /\ CodecIdle /\ CtrlIdle

ReadNext ==
    \/ (K_ReadData /\ UNCHANGED <<scan_vars, codec_vars, ctrl_vars>>)

ReadSpec == InitRead /\ [][ReadNext]_vars

(***************************************************************************)
(* Properties.                                                             *)
(***************************************************************************)
Range(s) == {s[k] : k \in DOMAIN s}

LastN(s, n) == SubSeq(s, Len(s) - n + 1, Len(s))

\* setup() or run() raised out of its try block (the link had been opened)
RaisedAfterOpen ==
    /\ pc = "ready"
    /\ op \in {"setup", "run"}
    /\ err # NoErr
    /\ err.at \notin {"open", "run_guard"}

\* C1: when setup() or run() raises after the link was opened, an RF-off
\* and a detector-off command have been attempted, the link is closed, the
\* scanner holds no controller, and the RF output is off if the device
\* accepted the RF-off command.
C1_TeardownBeforeError ==
    RaisedAfterOpen =>
        /\ "rf_off" \in Range(sent)
        /\ "det_off" \in Range(sent)
        /\ "close" \in Range(sent)
        /\ ~tpi
        /\ (rf_off_ok => ~rf_on)

\* C2: a teardown that has started (RF-off was attempted) and has left the
\* function always attempted RF-off, then detector-off, then closed the
\* link, whether or not the two commands failed.
C2_TeardownClosesLink ==
    (pc = "ready" /\ "rf_off" \in Range(sent)) =>
        /\ Len(sent) >= 3
        /\ LastN(sent, 3) = <<"rf_off", "det_off", "close">>

\* the scanner is Configured: it holds a controller on an open link and the
\* device has detector and RF output on
Configured == tpi /\ open_links >= 1 /\ rf_on /\ det_on

C3_States ==
    /\ (op = "run" /\ pc \in {"r_start", "r_capture", "r_decode"}) => Configured
    /\ (pc = "ready" /\ op = "run" /\ err = NoErr) =>
          /\ Configured
          /\ sent = <<"start">>
          /\ ENABLED Run_Begin
    /\ (pc = "ready" /\ op = "run" /\ err # NoErr) => ~tpi
    /\ (pc = "ready" /\ op = "shutdown") => ~tpi
    /\ (pc = "ready" /\ op = "setup" /\ err # NoErr /\ err.at # "open") => ~tpi

C3_RunCall ==
    (pc = "ready" /\ op' = "run") =>
        IF Configured
        THEN pc' = "r_start" /\ sent' = <<>>
        ELSE /\ ~tpi
             /\ pc' = "ready"
             /\ err'.kind = "RuntimeError"
             /\ sent' = <<>>
             /\ UNCHANGED <<tpi, open_links, rf_on, det_on>>

C4_SetupOrder ==
    /\ (pc = "ready" /\ op = "setup" /\ err = NoErr) =>
          sent \in {<<"probe", "set_rf_power", "set_params", "det_on", "rf_on">>,
                    <<"probe", "enable", "probe", "set_rf_power", "set_params",
                      "det_on", "rf_on">>}
    /\ (op = "setup") => "start" \notin Range(sent)
    /\ (op = "run") => ("det_on" \notin Range(sent) /\ "rf_on" \notin Range(sent))
    /\ (op = "run" /\ pc \in {"r_capture", "r_decode"}) =>
          (sent = <<"start">> /\ det_on /\ rf_on)

C4_Witness ==
    /\ pc = "ready"
    /\ op = "setup"
    /\ err = NoErr
    /\ Len(sent) = 7
    /\ det_on
    /\ rf_on

\* the last seven bytes of chunk c are AA 55 00 02 07 3F B7
SentinelAtEnd(c) ==
    /\ Len(c) >= 7
    /\ \A k \in 1..7 : c[Len(c) - 7 + k] = <<170, 85, 0, 2, 7, 63, 183>>[k]

\* C5: the capture loop makes at most NUM_CAPTURES reads, goes on only
\* while the latest chunk does not end with the sentinel, stops early only at
\* a chunk that ends with it, and a run() that used up all NUM_CAPTURES
\* iterations returns the decoded points without raising.
C5_CaptureTerminates ==
    /\ reads <= NUM_CAPTURES
    /\ i <= NUM_CAPTURES
    /\ (pc = "r_capture") => (reads = i /\ (reads > 0 => ~SentinelAtEnd(raw_data)))
    /\ (pc = "r_decode") => (SentinelAtEnd(raw_data) \/ reads = NUM_CAPTURES)
    /\ (pc = "ready" /\ op = "run" /\ i = NUM_CAPTURES) =>
          (err = NoErr /\ tpi /\ Len(results) = Len(all_raw_data) \div 4)

C5_Witness ==
    /\ pc = "ready"
    /\ op = "run"
    /\ i = NUM_CAPTURES
    /\ reads = NUM_CAPTURES
    /\ ~SentinelAtEnd(raw_data)
    /\ err = NoErr
    /\ Len(results) = 2

\* the binary32 fields of the little-endian word b1 + 2^8 b2 + 2^16 b3 + 2^24 b4
FieldsLE(b1, b2, b3, b4) ==
    LET low31 == (b4 % 128) * 16777216 + b3 * 65536 + b2 * 256 + b1
    IN  [sign |-> b4 \div 128, exponent |-> low31 \div 8388608,
         mantissa |-> low31 % 8388608]

\* C6: run() returns floor(n/4) points for a buffer of n bytes; point k
\* (from 0) has frequency start + k*step and the little-endian float of
\* bytes 4k..4k+3; 1 to 3 trailing bytes are dropped; for step > 0 the
\* frequencies are strictly increasing.
C6_Decode ==
    (pc = "ready" /\ op = "run" /\ err = NoErr) =>
        /\ Len(results) = Len(all_raw_data) \div 4
        /\ \A k \in 0..(Len(results) - 1) :
              /\ results[k + 1].freq = args.start_khz + k * args.step_khz
              /\ results[k + 1].value =
                    FieldsLE(all_raw_data[4 * k + 1], all_raw_data[4 * k + 2],
                             all_raw_data[4 * k + 3], all_raw_data[4 * k + 4])
        /\ (args.step_khz > 0) =>
              \A j, k \in 1..Len(results) :
                  j < k => results[j].freq < results[k].freq

\* 0.0 and -1.5 at start 1000 kHz, step 10 kHz
C6_Witness ==
    /\ pc = "ready"
    /\ op = "run"
    /\ err = NoErr
    /\ all_raw_data = <<0, 0, 0, 0, 0, 0, 192, 191>>
    /\ results = <<[freq |-> 1000,
                    value |-> [sign |-> 0, exponent |-> 0, mantissa |-> 0]],
                   [freq |-> 1010,
                    value |-> [sign |-> 1, exponent |-> 127, mantissa |-> 4194304]]>>

\* C7: the accumulation buffer is empty when a run() starts capturing and
\* holds only what the chunks of this call contributed, so the returned
\* points are decoded from this call's chunks alone.
C7_BufferPerRun ==
    /\ (pc = "r_start") => all_raw_data = <<>>
    /\ (pc \in {"r_capture", "r_decode"}) => all_raw_data = carried
    /\ (pc = "ready" /\ op = "run" /\ err = NoErr) =>
          /\ all_raw_data = carried
          /\ Len(results) = Len(carried) \div 4

\* a run() called while the buffer still held bytes of an earlier run()
C7_Witness ==
    /\ pc = "ready"
    /\ op = "run"
    /\ err = NoErr
    /\ stale
    /\ Len(results) = 1

\* C8: reading back the frame built for a body returns exactly that body.
C8_RoundTrip ==
    (cpc = "read") => (resp.status = "ok" /\ resp.body = cbody)

\* a body whose length needs the high byte of the length field
C8_Witness ==
    /\ cpc = "read"
    /\ Len(cbody) = 256
    /\ resp.status = "ok"
    /\ resp.body = cbody

\* C9: a frame with one body byte changed is rejected with a checksum error
\* by both readers, and a reader returns a body only when the checksum byte
\* equals (0xFF - (len_hi + len_lo + sum(body))) & 0xFF.
C9_ChecksumRejects ==
    /\ (cpc = "read_damaged") =>
          /\ resp.status = "RuntimeError"
          /\ resp.msg = "Checksum mismatch."
          /\ resp1.status = "ValueError"
    /\ (resp.status = "ok") =>
          (wire[3] + wire[4] + Sum(resp.body) + wire[5 + Len(resp.body)]) % 256 = 255
    /\ (resp1.status = "ok") =>
          (wire[3] + wire[4] + Sum(resp1.body) + wire[5 + Len(resp1.body)]) % 256 = 255

\* a damaged body byte (not the checksum byte)
C9_Witness ==
    /\ cpc = "read_damaged"
    /\ SubSeq(wire, 5, Len(wire) - 1) # cbody
    /\ Len(cbody) = 3
    /\ resp.msg = "Checksum mismatch."

\* C10: the frame of a body of length L is AA 55, L>>8, L&0xFF, the body,
\* and one checksum byte c with (len_hi + len_lo + sum(body) + c) & 0xFF =
\* 0xFF; it is L+5 bytes long; both controllers build the same frame.
C10_FrameLayout ==
    (cpc = "built") =>
        LET L == Len(cbody)
        IN  /\ Len(wire) = L + 5
            /\ SubSeq(wire, 1, 4) = <<170, 85, L \div 256, L % 256>>
            /\ SubSeq(wire, 5, L + 4) = cbody
            /\ wire[L + 5] \in 0..255
            /\ (wire[3] + wire[4] + Sum(cbody) + wire[L + 5]) % 256 = 255
            /\ wire = BuildPacket1(cbody)

C10_Witness ==
    /\ cpc = "built"
    /\ Len(cbody) = 257
    /\ wire[3] = 1
    /\ wire[4] = 1

\* C11: when stray bytes that are not AA 55 precede the response frame, the
\* reader of either controller scans forward to the marker and returns the
\* body of the frame that starts there.
C11_Resynchronizes ==
    (cpc = "read_noisy") =>
        /\ resp.status = "ok"
        /\ resp.body = cbody
        /\ resp1.status = "ok"
        /\ resp1.body = cbody

\* a response is timed out when the reader raised one of its timeout errors
IsTimeoutError(r) ==
    /\ r.status = "RuntimeError"
    /\ r.msg \in {"Timeout waiting for response header.",
                  "Timeout reading response body.",
                  "Timeout reading checksum."}

\* C13: when the device delivers no byte, or only the first part of a frame,
\* the reader of either controller ends with a timeout error after a bounded
\* number of timed-out reads.
C13_NoHang ==
    (cpc = "read_cut") =>
        /\ IsTimeoutError(resp)
        /\ resp1.status \notin {"ok", "none", "hang"}

\* open attempts (calls of serial.Serial) in the event list of __init__
Attempts(ev) == Cardinality({k \in DOMAIN ev : ev[k] # "sleep"})

\* C12: tpi_controller2's __init__ with retries = R >= 1 makes at most R open
\* attempts, stops at the first one that yields an open port, sleeps after a
\* failed attempt exactly when another attempt follows, and raises
\* RuntimeError only after R failed attempts.
C12_OpenRetries ==
    (kver = 2 /\ kopen.retries >= 1) =>
        LET ev == kopen.events
            R  == kopen.retries
        IN  /\ Attempts(ev) <= R
            /\ \A k \in DOMAIN ev :
                  /\ (ev[k] = "open") => k = Len(ev)
                  /\ (ev[k] = "sleep") =>
                        (k > 1 /\ ev[k - 1] \in {"not_open", "exception"}
                         /\ Attempts(SubSeq(ev, 1, k)) < R)
                  /\ (ev[k] \in {"not_open", "exception"} /\ k < Len(ev)) =>
                        ev[k + 1] = "sleep"
            /\ (kpc = "open_try") => (ev = <<>> \/ ev[Len(ev)] = "sleep")
            /\ (kpc = "open_sleep") => Attempts(ev) < R
            /\ (kpc = "dead") =>
                  /\ kret.status = "RuntimeError"
                  /\ Attempts(ev) = R
                  /\ \A k \in DOMAIN ev : ev[k] # "open"
                  /\ ev[Len(ev)] # "sleep"
            /\ (kpc \notin {"open_try", "open_sleep", "dead"}) =>
                  ev[Len(ev)] = "open"

\* every attempt failed: two attempts, one sleep between them, then the raise
C12_Witness ==
    /\ kver = 2
    /\ kpc = "dead"
    /\ kopen.retries = 2
    /\ kopen.events = <<"exception", "sleep", "not_open">>
    /\ kret.status = "RuntimeError"

\* C14: an exchange that timed out is the last exchange of its call, and the
\* call ended by raising that timeout error.
C14_TimeoutPropagates ==
    \A k \in DOMAIN klog :
        IsTimeoutError(klog[k].r) =>
            /\ k = Len(klog)
            /\ (kpc \in {"idle", "dead"}) => kret = Propagate(klog[k].r)

SetStartRead == {"set_rf_power", "set_analyzer_parameters_v2",
                 "read_analyzer_parameters_v2", "start_analyzer_v2"}

\* the one exchange of the finished call returned a body whose first two
\* bytes are not the opcode that was sent
EchoMismatch ==
    /\ kpc = "idle"
    /\ kcall.name \in SetStartRead
    /\ Len(klog) = 1
    /\ klog[1].r.status = "ok"
    /\ \/ Len(klog[1].r.body) < 2
       \/ klog[1].r.body[1] # klog[1].body[1]
       \/ klog[1].r.body[2] # klog[1].body[2]

\* C15: a set/start/read-parameters command whose response body does not
\* start with the request's two opcode bytes raises RuntimeError and returns
\* no data.
C15_OpcodeEcho ==
    EchoMismatch => (kret.status = "RuntimeError" /\ kret.value = NoValue)

\* 07 FF 01 in answer to read-sweep-parameters
C15_Witness ==
    /\ EchoMismatch
    /\ kcall.name = "read_analyzer_parameters_v2"
    /\ klog[1].r.body = <<7, 255, 1>>
    /\ kret.status = "RuntimeError"

\* exchange k of the call returned a body that starts with the opcode o
Echoes(k, o) ==
    /\ klog[k].r.status = "ok"
    /\ Len(klog[k].r.body) >= 2
    /\ klog[k].r.body[1] = o[1]
    /\ klog[k].r.body[2] = o[2]

\* C16: enable_user_control sends the probe 07 02 first; if the response
\* starts with 07 02 it returns and nothing else was sent; otherwise it
\* sends enable 08 01, then the probe again, and returns normally only if the
\* enable response echoes 08 01 and the second probe echoes 07 02; in every
\* other case it raises.
C16_EnableSequence ==
    (kcall.name \in {"enable_user_control", "__init__"} /\ Len(klog) >= 1) =>
        /\ Len(klog) <= 3
        /\ klog[1].body = <<7, 2>>
        /\ (Len(klog) >= 2) => klog[2].body = <<8, 1>>
        /\ (Len(klog) = 3) => (klog[3].body = <<7, 2>> /\ Echoes(2, <<8, 1>>))
        /\ Echoes(1, <<7, 2>>) =>
              (Len(klog) = 1 /\ kpc = "idle" /\ kret.status = "ok")
        /\ (kpc \in {"idle", "dead"}) =>
              /\ kret.status # "none"
              /\ (kret.status = "ok") <=>
                    \/ Echoes(1, <<7, 2>>)
                    \/ (Len(klog) = 3 /\ Echoes(2, <<8, 1>>) /\ Echoes(3, <<7, 2>>))
              /\ (~Echoes(1, <<7, 2>>)) => Len(klog) >= 2

\* the device was not enabled: probe, enable, probe, normal return
C16_Witness ==
    /\ kcall.name = "enable_user_control"
    /\ kpc = "idle"
    /\ Len(klog) = 3
    /\ klog[1].r.status = "ok"
    /\ klog[1].r.body = <<7, 255, 1>>
    /\ kret.status = "ok"

\* the byte b read as a signed 8-bit two's-complement value
Signed8(b) == IF b >= 128 THEN b - 256 ELSE b

\* C17: set_rf_power(dbm) raises ValueError and writes nothing for dbm < -90
\* or dbm > 10; otherwise it sends 08 0A b with b = dbm mod 256, and b read
\* as a signed byte is dbm.
C17_RfPower ==
    (kcall.name = "set_rf_power" /\ kpc \in {"idle", "hung"}) =>
        IF kcall.dbm < -90 \/ kcall.dbm > 10
        THEN kret.status = "ValueError" /\ klog = <<>>
        ELSE /\ Len(klog) = 1
             /\ Len(klog[1].body) = 3
             /\ klog[1].body[1] = 8
             /\ klog[1].body[2] = 10
             /\ klog[1].body[3] \in 0..255
             /\ (klog[1].body[3] - kcall.dbm + 256) % 256 = 0
             /\ Signed8(klog[1].body[3]) = kcall.dbm

\* -90 dBm is sent as A6
C17_Witness ==
    /\ kcall.name = "set_rf_power"
    /\ kpc = "idle"
    /\ kcall.dbm = -90
    /\ klog[1].body = <<8, 10, 166>>
    /\ kret.status = "ok"

\* C18: set_analyzer_parameters_v2 raises ValueError without writing a
\* command exactly when dwell_ms < 2 or dwell_ms > 500: 1 and 501 are
\* rejected, 2 and 500 are sent with the dwell in bytes 14..15 of the body.
C18_DwellRange ==
    (kcall.name = "set_analyzer_parameters_v2" /\ kpc \in {"idle", "hung"}) =>
        LET d == kcall.p.dwell_ms
        IN  /\ (kret.status = "ValueError" /\ klog = <<>>) <=> (d < 2 \/ d > 500)
            /\ (klog = <<>>) <=> (d < 2 \/ d > 500)
            /\ (d >= 2 /\ d <= 500) =>
                  /\ Len(klog) = 1
                  /\ klog[1].body[15] + 256 * klog[1].body[16] = d

\* dwell 500 is sent as F4 01
C18_Witness ==
    /\ kcall.name = "set_analyzer_parameters_v2"
    /\ kpc = "idle"
    /\ kcall.p.dwell_ms = 500
    /\ Len(klog) = 1
    /\ klog[1].body[15] = 244
    /\ klog[1].body[16] = 1
    /\ kret.status = "ok"

\* C19: in every sweep-parameter body that is sent, the averaging byte is in
\* 1..10 (0 or less is sent as 1, more than 10 as 10) and the max-points byte
\* is at most 50 (more than 50 is sent as 50), in both controllers.
C19_ClampedPayload ==
    (kcall.name = "set_analyzer_parameters_v2" /\ Len(klog) = 1) =>
        LET b  == klog[1].body
            av == kcall.p.averages_per_point
            mp == kcall.p.max_points_per_packet
        IN  /\ b[23] \in 1..10
            /\ b[23] = (IF av < 1 THEN 1 ELSE IF av > 10 THEN 10 ELSE av)
            /\ b[22] <= 50
            /\ b[22] = (IF mp > 50 THEN 50 ELSE mp)

\* C20: after set_analyzer_parameters_v2(p) was accepted by a device that
\* mirrors the stored payload, read_analyzer_parameters_v2() of
\* tpi_controller2 returns the fields of p, with averages clamped to 1..10,
\* max points to at most 50 and the auto-RF flag as 1 or 0.
C20_SetThenRead ==
    (/\ kver = 2
     /\ kcall.name = "read_analyzer_parameters_v2"
     /\ kpc = "idle"
     /\ kret.status = "ok"
     /\ dev.p # NoParams) =>
        LET p == dev.p
        IN  kret.value =
              [start_khz  |-> p.start_khz,
               stop_khz   |-> p.stop_khz,
               step_khz   |-> p.step_khz,
               dwell_ms   |-> p.dwell_ms,
               num_points |-> p.num_points,
               auto_rf    |-> IF p.auto_rf THEN 1 ELSE 0,
               max_points_per_packet |->
                   IF p.max_points_per_packet > 50 THEN 50
                   ELSE p.max_points_per_packet,
               averages_per_point |->
                   IF p.averages_per_point < 1 THEN 1
                   ELSE IF p.averages_per_point > 10 THEN 10
                   ELSE p.averages_per_point]

\* averages 11 was stored as 10 and read back with start 0x01020304
C20_Witness ==
    /\ kver = 2
    /\ kcall.name = "read_analyzer_parameters_v2"
    /\ kpc = "idle"
    /\ kret.status = "ok"
    /\ dev.p # NoParams
    /\ dev.p.averages_per_point = 11
    /\ kret.value.averages_per_point = 10
    /\ kret.value.start_khz = 16909060
    /\ kret.value.stop_khz = 2147483647

\* the call made on the function input has returned or raised
Done(name) == fin.fn = name /\ fout # NoOut

\* C21: calculate_num_points(start, stop, step) returns (stop - start)/step + 1
\* when step divides stop - start exactly, and raises ValueError for every
\* other input.
C21_NumPoints ==
    Done("calculate_num_points") =>
        LET d == fin.stop_khz - fin.start_khz
            s == fin.step_khz
        IN  IF s # 0 /\ \E q \in (0 - 20)..1000 : q * s = d
            THEN fout = Result(d \div s + 1)
            ELSE fout = Exc("ValueError")

\* C22: shutdown() on a scanner that holds no controller sends no command,
\* closes no link, raises nothing and leaves the scanner as it was; and the
\* scanner holds no controller after a completed shutdown() and after the
\* teardown that a failed setup() or run() triggered, so the shutdown() that
\* follows them (the second of two, or the finally clause of
\* scan_frequency_range) is of that kind.
C22_ShutdownIdempotent ==
    /\ []((pc = "ready" /\ op = "shutdown") => ~tpi)
    /\ [][/\ pc = "t_close" => (pc' = "ready" /\ ~tpi')
          /\ (pc = "ready" /\ ~tpi /\ op' = "shutdown") =>
                /\ pc' = "ready"
                /\ sent' = <<>>
                /\ err' = NoErr
                /\ UNCHANGED <<tpi, open_links, rf_on, det_on,
                               all_raw_data>>]_vars

\* shutdown() has returned on a scanner whose controller was torn down
\* after a capture, without sending anything
C22_Witness ==
    /\ pc = "ready"
    /\ op = "shutdown"
    /\ ~tpi
    /\ sent = <<>>
    /\ err = NoErr
    /\ all_raw_data # <<>>

\* C23: calculate_vswr returns a value in [1.1, 5.0] for every input; it is
\* 5.0 for 0 dB, and a ratio below 1.1 or above 5.0 is returned as 1.1 or 5.0
\* (1 dB has the ratio 17.39, 60 dB the ratio 1.002, 20 dB the ratio 1.222).
C23_VswrRange ==
    Done("calculate_vswr") =>
        /\ fout.status = "ok"
        /\ fout.value >= 1100
        /\ fout.value <= 5000
        /\ (fin.cls = "finite" /\ fin.type \in {"int", "float"}) =>
              /\ fin.val = 0 => fout.value = 5000
              /\ fin.val \in {1, -1} => fout.value = 5000
              /\ fin.val = 60 => fout.value = 1100
              /\ fin.val \in {20, -20} => fout.value = 1222

\* a ratio above 5.0 was returned as 5.0
C23_Witness ==
    /\ Done("calculate_vswr")
    /\ fin.cls = "finite"
    /\ fin.type = "float"
    /\ fin.val = 1
    /\ fout = Result(5000)

\* C24: calculate_vswr returns 5.0 for NaN, for +infinity, for -infinity and
\* for every input that is not a number.
C24_InvalidIsCeiling ==
    (Done("calculate_vswr") /\ fin.cls # "finite") => fout = Result(5000)

\* the value of the piecewise-linear interpolation through the sorted points
\* is at most vswr_limit at every frequency of [freq_low, freq_high]: each
\* segment is linear, so it is enough to look at the two ends of the part of
\* each segment that lies in the range
WithinLimit(data, freq_low, freq_high, vswr_limit) ==
    LET s == SortedByFreq(data)
    IN  \A k \in 1..(Len(s) - 1) :
            (s[k].f <= freq_high /\ s[k + 1].f >= freq_low) =>
                LET a == IF s[k].f > freq_low THEN s[k].f ELSE freq_low
                    b == IF s[k + 1].f < freq_high THEN s[k + 1].f ELSE freq_high
                IN  /\ ~InterpolatedExceeds(s[k], s[k + 1], a, vswr_limit)
                    /\ ~InterpolatedExceeds(s[k], s[k + 1], b, vswr_limit)

\* C25: for points with distinct frequencies whose span covers
\* [freq_low, freq_high], evaluate_vswr_range returns True exactly when the
\* piecewise-linear interpolation through the points is at most vswr_limit
\* on the whole range, the first segment included when freq_low lies
\* strictly inside it.
C25_PiecewiseLinear ==
    (/\ Done("evaluate_vswr_range")
     /\ Covers(fin.data, fin.freq_low, fin.freq_high)) =>
        fout.first = Result(WithinLimit(fin.data, fin.freq_low, fin.freq_high,
                                        fin.vswr_limit))

\* C26: two point lists that cover [freq_low, freq_high] and have the same
\* points at the frequencies of the range get the same result for the same
\* range and limit.
C26_OutsideIgnored ==
    (/\ Done("evaluate_vswr_range")
     /\ Covers(fin.data, fin.freq_low, fin.freq_high)
     /\ Covers(fin.data2, fin.freq_low, fin.freq_high)
     /\ AgreeInside(fin.data, fin.data2, fin.freq_low, fin.freq_high)) =>
        fout.first = fout.second

\* C27: evaluate_vswr_range raises ValueError exactly when freq_low is below
\* the lowest measured frequency or freq_high is above the highest one, and
\* returns a verdict otherwise.
C27_RangeError ==
    (Done("evaluate_vswr_range") /\ fin.data # <<>>) =>
        LET freqs == {fin.data[k].f : k \in DOMAIN fin.data}
            beyond == \/ \A f \in freqs : fin.freq_low < f
                      \/ \A f \in freqs : fin.freq_high > f
        IN  /\ beyond => fout.first = Exc("ValueError")
            /\ ~beyond => (fout.first.status = "ok" /\
                           fout.first.value \in BOOLEAN)

\* the range ends above the highest measured frequency and the call raised
C27_Witness ==
    /\ Done("evaluate_vswr_range")
    /\ Len(fin.data) = 3
    /\ fin.freq_low = 10
    /\ fin.freq_high = 35
    /\ \E k \in DOMAIN fin.data : fin.data[k].f = 10
    /\ fout.first = Exc("ValueError")

\* C28: get_highest_baseline with num_captures = N >= 1, on captures that
\* are not empty, returns after exactly N run() calls, and what it returns
\* is the earliest of the N captures whose mean is at least the mean of
\* every capture.
C28_HighestBaseline ==
    (/\ fin.fn = "get_highest_baseline"
     /\ \A k \in DOMAIN facc : facc[k] # <<>>) =>
        /\ Len(facc) <= fin.num_captures
        /\ (fout # NoOut /\ fin.num_captures >= 1) =>
              /\ Len(facc) = fin.num_captures
              /\ fout.status = "ok"
              /\ \E k \in DOMAIN facc :
                    /\ fout.value = facc[k]
                    /\ \A j \in DOMAIN facc :
                          Sum(facc[j]) * Len(facc[k]) <= Sum(facc[k]) * Len(facc[j])
                    /\ \A j \in 1..(k - 1) :
                          Sum(facc[j]) * Len(facc[k]) < Sum(facc[k]) * Len(facc[j])

\* the captures have the means 5, 9 and 9; the first capture with mean 9
\* was returned
C28_Witness ==
    /\ Done("get_highest_baseline")
    /\ facc = <<<<4, 6>>, <<8, 10>>, <<9>>>>
    /\ fout = Result(<<8, 10>>)

\* C29: subtract_baseline(sweep, baseline), for a baseline with one entry
\* per frequency, returns a list as long as the sweep with the frequencies
\* of the sweep in the same order; its i-th value is the sweep value minus
\* the value of the baseline entry of that frequency, or the sweep value
\* when the baseline has no entry of that frequency.
C29_SubtractBaseline ==
    (/\ Done("subtract_baseline")
     /\ \A j, k \in DOMAIN fin.baseline :
           fin.baseline[j].f = fin.baseline[k].f => j = k) =>
        /\ fout.status = "ok"
        /\ Len(fout.value) = Len(fin.results)
        /\ \A n \in DOMAIN fin.results :
              /\ fout.value[n].f = fin.results[n].f
              /\ \A k \in DOMAIN fin.baseline :
                    fin.baseline[k].f = fin.results[n].f =>
                        fout.value[n].v = fin.results[n].v - fin.baseline[k].v
              /\ (\A k \in DOMAIN fin.baseline :
                     fin.baseline[k].f # fin.results[n].f) =>
                        fout.value[n].v = fin.results[n].v

\* -1.5 dB at 1010 kHz minus the baseline 1.0 dB gives -2.5 dB; 1020 kHz has
\* no baseline entry and keeps its 2.0 dB, the entry at 1030 kHz is not used
C29_Witness ==
    /\ Done("subtract_baseline")
    /\ fin.results = <<[f |-> 1010, v |-> 0 - 15], [f |-> 1020, v |-> 20]>>
    /\ fin.baseline = <<[f |-> 1030, v |-> 0 - 5], [f |-> 1010, v |-> 10]>>
    /\ fout = Result(<<[f |-> 1010, v |-> 0 - 25], [f |-> 1020, v |-> 20]>>)

C31_TooFewPointsRaise ==
    (/\ Done("interpolated")
     /\ fin.method # "none"
     /\ fin.interpolation_factor >= 1
     /\ Len(fin.vswr_data) < 4) =>
        fout = Exc("ValueError")

\* cubic interpolation with factor 1 of three points has raised
C31_Witness ==
    /\ Done("interpolated")
    /\ fin.method = "cubic"
    /\ fin.interpolation_factor = 1
    /\ Len(fin.vswr_data) = 3
    /\ fout = Exc("ValueError")

\* C32: add_vswr_criterion_points raises ValueError whenever one of the
\* three criterion frequencies is below the lowest or above the highest
\* frequency of the input, and a result it returns holds no frequency
\* outside that span.
C32_NoExtrapolation ==
    (Done("add_vswr_criterion_points") /\ fin.vswr_data # <<>>) =>
        LET freqs == {fin.vswr_data[k].f : k \in DOMAIN fin.vswr_data}
            Outside(c) == (\A f \in freqs : c < f) \/ (\A f \in freqs : c > f)
        IN  /\ (\/ Outside(fin.vswr_start_khz)
                \/ Outside(fin.vswr_mid_khz)
                \/ Outside(fin.vswr_stop_khz)) => fout = Exc("ValueError")
            /\ fout.status = "ok" =>
                  \A n \in DOMAIN fout.value : ~Outside(fout.value[n].f)

\* four points from 1000 to 1030 kHz and a middle criterion frequency of
\* 1035 kHz: the call raised
C32_Witness ==
    /\ Done("add_vswr_criterion_points")
    /\ Len(fin.vswr_data) = 4
    /\ fin.vswr_start_khz = 1005
    /\ fin.vswr_mid_khz = 1035
    /\ fin.vswr_stop_khz = 1020
    /\ fout = Exc("ValueError")

\* the frequencies of the input and the criterion frequencies of a call of
\* add_vswr_criterion_points
InputFreqs == {fin.vswr_data[k].f : k \in DOMAIN fin.vswr_data}

CriterionFreqs == {fin.vswr_start_khz, fin.vswr_mid_khz, fin.vswr_stop_khz}

\* the result is sorted and holds one point for each frequency of the
\* input and each criterion frequency, and no other point
KeyedByFrequency(out) ==
    /\ \A n \in 1..(Len(out) - 1) : out[n].f <= out[n + 1].f
    /\ {out[n].f : n \in DOMAIN out} = InputFreqs \cup CriterionFreqs
    /\ \A f \in InputFreqs \cup CriterionFreqs :
          Cardinality({n \in DOMAIN out : out[n].f = f}) = 1

Stripped(chunk) ==
    IF Len(chunk) > 12
    THEN [k \in 1..(Len(chunk) - 12) |-> chunk[11 + k]]
    ELSE <<>>

\* C34: each read of the capture loop appends chunk[11:-1] to the
\* accumulation buffer if the chunk is longer than 12 bytes and nothing
\* otherwise; if the chunk ends with AA 55 00 02 07 3F B7 the last 7 bytes
\* of the buffer are then removed when it holds at least 7, and the loop
\* is left without a further read; the buffer is empty before the first
\* read and is not changed after the loop.
C34_Accumulation ==
    /\ [](pc = "r_start" => all_raw_data = <<>>)
    /\ [][/\ (pc = "r_capture" /\ reads' = reads + 1
                /\ pc' \in {"r_capture", "r_decode"}) =>
               LET buf == all_raw_data \o Stripped(raw_data')
               IN  /\ SentinelAtEnd(raw_data') =>
                         /\ pc' = "r_decode"
                         /\ all_raw_data' =
                               IF Len(buf) >= 7
                               THEN [k \in 1..(Len(buf) - 7) |-> buf[k]]
                               ELSE buf
                   /\ ~SentinelAtEnd(raw_data') => all_raw_data' = buf
          /\ pc = "r_decode" =>
                (reads' = reads /\ all_raw_data' = all_raw_data)]_vars

\* three reads: a data packet with 0.0, a chunk that added nothing, and a
\* data packet with -1.5 followed by the stop notification; the buffer
\* holds the two floats
C34_Witness ==
    /\ pc = "r_decode"
    /\ reads = 3
    /\ raw_data = DataFrame(F15) \o Sentinel
    /\ all_raw_data = F0 \o F15

\* C35: the capture loop stops at a chunk exactly when the last 7 bytes of
\* that chunk are the sentinel; a chunk that holds only a part of the
\* sentinel, or the sentinel followed by another byte, does not stop it,
\* and a run() that used up its iterations without such a chunk returns
\* without error.
C35_SentinelPerChunk ==
    /\ [][(pc = "r_capture" /\ reads' = reads + 1
                /\ pc' \in {"r_capture", "r_decode"}) =>
               /\ (pc' = "r_decode") = SentinelAtEnd(raw_data')
               /\ raw_data' \in {<<170, 85, 0>>, <<2, 7, 63, 183>>,
                                  <<170, 85, 0, 2, 7, 63, 183, 0>>} =>
                      (pc' = "r_capture" /\ i' = i + 1)]_vars
    /\ []((pc = "ready" /\ op = "run" /\ i = NUM_CAPTURES) =>
              (~SentinelAtEnd(raw_data) /\ err = NoErr /\ tpi))

\* the first three bytes of the sentinel came at the end of one chunk (two
\* of them are in the buffer), the other four in the next chunk, and the
\* loop goes on
C35_Witness ==
    /\ pc = "r_capture"
    /\ reads = 2
    /\ raw_data = <<2, 7, 63, 183>>
    /\ Len(all_raw_data) = 7
    /\ all_raw_data[6] = 170
    /\ all_raw_data[7] = 85

\* C37: when every chunk of a run() was one complete frame, a data packet
\* or the stop notification (alone or behind the last data packet), and
\* the stop notification came, run() returns one point for every float
\* of the data packets, in the order of arrival, point k (from 0) with the
\* frequency start + k*step.
C37_FramesDecoded ==
    (/\ pc = "ready"
     /\ op = "run"
     /\ err = NoErr
     /\ frames.valid
     /\ SentinelAtEnd(raw_data)) =>
        /\ Len(results) = Len(frames.data) \div 4
        /\ \A k \in 0..(Len(results) - 1) :
              /\ results[k + 1].freq = args.start_khz + k * args.step_khz
              /\ results[k + 1].value =
                    FieldsLE(frames.data[4 * k + 1], frames.data[4 * k + 2],
                             frames.data[4 * k + 3], frames.data[4 * k + 4])


C40_OriginalErrorSurfaces ==
    (/\ pc = "ready"
     /\ op \in {"setup", "run"}
     /\ pending # NoErr
     /\ td_err # NoErr) => err = pending


\* C39: the scanning reader of tpi_controller.py returns the body of a valid
\* frame that follows line noise, also when the last noise byte is AA.
C39_ScanFindsFrame ==
    cpc = "read_noisy" => resp1 = Returned(cbody)


\* the items in front of the first stop notification
RECURSIVE BeforeStop(_)
BeforeStop(items) ==
    IF items = <<>> \/ Head(items).kind = "stop"
    THEN <<>>
    ELSE <<Head(items)>> \o BeforeStop(Tail(items))

\* three pauses in a row among the items
ThreeTimeouts(items) ==
    \E k \in 1..(Len(items) - 2) :
        \A j \in k..(k + 2) : items[j].kind = "gap"

\* the steps of the valid data packets among the items, and for each step
\* the value in the last packet that holds it
ExpectedSteps(items) ==
    UNION {{items[k].first_step + j : j \in 0..(Len(items[k].floats) \div 4 - 1)} :
              k \in {n \in 1..Len(items) : items[n].kind = "data"}}

ExpectedValue(items, st) ==
    LET holds(k) == /\ items[k].kind = "data"
                    /\ st - items[k].first_step \in 0..(Len(items[k].floats) \div 4 - 1)
        last == CHOOSE k \in 1..Len(items) :
                    holds(k) /\ \A n \in (k + 1)..Len(items) : ~holds(n)
        at   == 4 * (st - items[last].first_step)
    IN  FieldsLE(items[last].floats[at + 1], items[last].floats[at + 2],
                 items[last].floats[at + 3], items[last].floats[at + 4])

\* what the claim says of one finished call
ReadAsClaimed ==
    LET seen == BeforeStop(fin.items)
        stop == Len(seen) < Len(fin.items)
    IN  /\ (stop /\ (fin.ver = 1 \/ ~ThreeTimeouts(seen))) =>
              /\ fout.status = "ok"
              /\ ~fout.value.none
              /\ DOMAIN fout.value.points = ExpectedSteps(seen)
              /\ \A st \in ExpectedSteps(seen) :
                    fout.value.points[st] = ExpectedValue(seen, st)
        /\ (fin.ver = 2 /\ ThreeTimeouts(seen)) =>
              (fout.status = "ok" /\ fout.value.none)

====
